---- MODULE Spec2Model ----
(***************************************************************************)
(* A model of the bot_agent runtime: the ReAct loop of agent/agents/base.py *)
(* with the System agent's hooks (agents/system/system_agent.py), the      *)
(* call_agent tool (agents/system/tools/call_agent.py), the conversation   *)
(* summariser, the memory manager's promotion path and ToolKit.execute.    *)
(***************************************************************************)
EXTENDS Integers, Sequences, FiniteSets, TLC

(* ------------------------------------------------------------------ *)
(* Bounds of the model                                                  *)
(* ------------------------------------------------------------------ *)

\* iteration budget of one run (Agent.max_iterations, configurable)
MaxIterations == 3
\* message_window of the System agent (configurable, "or DEFAULT" keeps it >= 1)
MessageWindow == 2
\* number of run() calls explored per agent
MaxTurns == 2
\* number of add_message() calls explored per agent
MaxAdds == 2

(* ------------------------------------------------------------------ *)
(* State                                                                *)
(* ------------------------------------------------------------------ *)

VARIABLES
    kind,             \* which agent was constructed: "system", "plain", or a
                      \* sub-agent, "memory" or "character"
    toolkit_size,     \* len(self._toolkit)
    heap,             \* list objects: heap[i] is the content of list object i
    messages_obj,     \* the list object self._messages is bound to
    messages_ref_obj, \* the list object CallAgentTool._messages_ref holds (0: no tool)
    loop_messages,    \* self._loop_messages
    pc,               \* "idle": no run in progress, "loop": inside _react_loop
    iteration,        \* the loop variable of _react_loop
    has_called_tool,  \* the local flag of _react_loop
    user_input,       \* the argument of the run in progress
    outcome,          \* how the last run ended (result yielded or exception raised)
    dispatch,         \* the last call_agent dispatch: what the callee saw, how it ended
    tool_runs,        \* the iterations (from 1) of this run that executed a tool
    final_steps,      \* what the Final Answer branch of this run did, in order
    mid_term,         \* rows of the mid_term_memory table written by the summariser
    trim,             \* what the last window trim did
    now,              \* the clock read by datetime.now()
    turns,            \* run() calls so far
    adds,             \* add_message() calls so far
    summarizer_calls, \* summarize_and_save() calls so far
    final_turns,      \* accepted Final Answers since the history was last cleared
    llm_calls,        \* self._llm.chat calls made by the loop in this run
    llm_failed,       \* the last of them raised
    response,         \* what the last invoke of a sub-agent returned
    \* the memory manager (agents/memory/manager.py)
    mid_table,        \* ids of the rows of the mid_term_memory table
    long_term,        \* records of the vector store
    access_counter,   \* MemoryManager._access_counter
    promoted_away,    \* ids of the rows promotion has deleted
    promo_selected,   \* the ids the last promote_high_frequency call took up
    store_calls,      \* store_long_term calls so far
    stored,           \* the last store_long_term call: argument, record, return
    \* one ToolKit.execute call (tools/base.py)
    tk_pc,            \* "idle", "executing" or "returned"
    tk_calls,         \* the tool_calls argument
    tk_workers,       \* the max_workers argument
    tk_status,        \* per call: "queued", "running", "finished", "collected"
    tk_results,       \* the results dict, in insertion order
    tk_order,         \* the calls in the order as_completed yielded them
    tk_returned,      \* the returned list
    \* one _parse_react_output call (agents/base.py)
    parser_reply,     \* the content argument, by its sections
    parser_done,      \* the call has returned
    parser_result,    \* the returned dict
    \* one CallAgentTool.execute call (agents/system/tools/call_agent.py)
    ca_args,          \* agent_name and the further named arguments
    ca_messages_ref,  \* the content of the list the tool references
    ca_done,          \* the call has returned
    ca_seen,          \* the AgentMessage the callee's invoke received
    ca_result,        \* the returned ToolResult
    \* the chat service (api/service.py)
    svc_objects,      \* every ChatPipeline constructed so far, with its state
    svc_pipelines,    \* ChatService._pipelines: session key to pipeline object (0: no entry)
    svc_calls,        \* service calls so far
    svc_last,         \* the last service call: what it was given and what it did
    \* one deduplication of ranked items (memory/manager.py, retrieval/ranker.py)
    dd_items,         \* the items argument
    dd_call,          \* which function was called: "long_term" or "mid_term"
    dd_done,          \* the call has returned
    dd_result,        \* the returned list
    \* one BM25 index and one query on it (memory/retrieval/bm25.py)
    bm_documents,     \* the documents argument of fit
    bm_corpus,        \* BM25._corpus: the token list of each document
    bm_query,         \* the query argument of get_doc_score_map
    bm_done,          \* get_doc_score_map has returned
    bm_scores,        \* the returned map, doc id to score
    \* normalize_emotion applied once and again (character/tools/emotion.py)
    em_input,         \* the emotion argument
    em_pc,            \* "start", "once" (normalised), "twice" (the result normalised again)
    em_first,         \* what the first call returned or that it raised
    em_second,        \* what the call on the first result returned
    \* CharacterAgent._extract_emotion_from_trace on one trace (character/character_agent.py)
    ex_trace,         \* the trace argument
    ex_done,          \* the call has returned
    ex_emotion_state, \* the returned emotion state
    \* access counting of mid-term searches
    ac_table,         \* ids of the rows of the mid-term table
    ac_stored,        \* id -> the row's stored access_count
    ac_counter,       \* id -> MemoryManager._access_counter
    ac_searches,      \* search_mid_term calls so far
    ac_last,          \* the last search: ids returned, ids whose update raised
    \* search_long_term
    lt_store,         \* what storage.vector_search returns, best match first
    lt_call,          \* the arguments of the search_long_term call
    lt_done,          \* search_long_term returned
    lt_kept,          \* the RankItems behind the returned records
    lt_results,       \* the returned records
    \* normalising the BM25 scores of a batch
    nb_batch,         \* what get_doc_score_map returned for the items of the batch
    nb_done,          \* _calc_bm25_scores returned
    nb_scores,        \* the items' bm25_score, as fractions
    \* closing the pipelines of the service
    rl_pipelines,     \* the keys of ChatService._pipelines
    rl_closed,        \* key -> the agents of the key's pipeline that are closed
    rl_calls,         \* service calls so far
    rl_last,          \* the last call and whether it raised
    \* session keys of (bot_id, user_id) pairs
    sk_pipelines,     \* ChatService._pipelines: session key, pipeline
    sk_objects,       \* the pipelines made, with the ids they were made for
    sk_calls,         \* chat calls so far
    sk_used,          \* which pipeline served which (bot_id, user_id)
    \* long-term memory of several bots
    pt_store,         \* the vectors of the collection: partition, bot_id and user_id
    pt_stores,        \* store_long_term calls so far
    pt_search,        \* the last search_long_term: the searching bot and what _vector_recall kept
    \* the dialogue kept by the System agent over many turns
    dg_messages,      \* SystemAgent._messages
    dg_rows,          \* the rows of the mid-term table
    dg_turns,         \* System.run calls so far
    dg_last           \* how the last turn ended

agentVars == <<kind, toolkit_size, heap, messages_obj, messages_ref_obj,
               loop_messages, pc, iteration, has_called_tool, user_input,
               outcome, dispatch, tool_runs, final_steps, mid_term, trim, now,
               turns, adds,
               summarizer_calls, final_turns, llm_calls, llm_failed, response>>

memoryVars == <<mid_table, long_term, access_counter, promoted_away, promo_selected,
                store_calls, stored>>

toolkitVars == <<tk_pc, tk_calls, tk_workers, tk_status, tk_results, tk_order,
                 tk_returned>>

parserVars == <<parser_reply, parser_done, parser_result>>

callAgentVars == <<ca_args, ca_messages_ref, ca_done, ca_seen, ca_result>>

serviceVars == <<svc_objects, svc_pipelines, svc_calls, svc_last>>

dedupeVars == <<dd_items, dd_call, dd_done, dd_result>>

bm25Vars == <<bm_documents, bm_corpus, bm_query, bm_done, bm_scores>>

emotionVars == <<em_input, em_pc, em_first, em_second>>

extractVars == <<ex_trace, ex_done, ex_emotion_state>>

accessVars == <<ac_table, ac_stored, ac_counter, ac_searches, ac_last>>

longVars == <<lt_store, lt_call, lt_done, lt_kept, lt_results>>

normVars == <<nb_batch, nb_done, nb_scores>>

releaseVars == <<rl_pipelines, rl_closed, rl_calls, rl_last>>

sessionVars == <<sk_pipelines, sk_objects, sk_calls, sk_used>>

partitionVars == <<pt_store, pt_stores, pt_search>>

dialogueVars == <<dg_messages, dg_rows, dg_turns, dg_last>>

vars == <<agentVars, memoryVars, toolkitVars, parserVars, callAgentVars,
          serviceVars,
          dedupeVars,
          bm25Vars,
          emotionVars,
          extractVars,
          accessVars,
          longVars,
          normVars,
          releaseVars,
          sessionVars,
          partitionVars,
          dialogueVars>>

(* ------------------------------------------------------------------ *)
(* Values                                                               *)
(* ------------------------------------------------------------------ *)

UserTexts == {"hello"}
\* the roles add_message is called with
AddedRoles == {"user"}

Msg(role, content) == [role |-> role, content |-> content]
StampedMsg(role, content, ts) == [role |-> role, content |-> content, timestamp |-> ts]

NoOutcome ==
    [kind |-> "none", success |-> FALSE, answer |-> "", iterations |-> 0,
     error |-> "", trace |-> <<>>]

\* Python's None, where a field holds None or a string
None == "<None>"

\* AgentResponse, and the value of `response` before any invoke returned
NoResponse ==
    [returned |-> FALSE, content |-> "", success |-> FALSE, error |-> None]

SubAgents == {"memory", "character"}

\* The named arguments a call_agent Action Input carries besides agent_name
\* and input: none, memory_context = "x", or metadata = {memory_context: "x"}.
ExtraArgs == {"none", "memory_context", "metadata"}

\* **kwargs as Python binds them in CallAgentTool.execute
Kwargs(extra) ==
    CASE extra = "none" -> [k \in {} |-> ""]
      [] extra = "memory_context" -> [k \in {"memory_context"} |-> "x"]
      [] extra = "metadata" -> [k \in {"metadata"} |-> [memory_context |-> "x"]]

\* metadata = kwargs.copy(); metadata["conversation_history"] = history
BuildMetadata(kwargs, history) ==
    [k \in (DOMAIN kwargs) \cup {"conversation_history"} |->
        IF k = "conversation_history" THEN history ELSE kwargs[k]]

\* AgentMessage.get(key, None)
MessageGet(metadata, key) ==
    IF key \in DOMAIN metadata THEN metadata[key] ELSE None

NoDispatch ==
    [made |-> FALSE, history |-> <<>>, system_messages |-> <<>>, input |-> "",
     callee |-> "none", at |-> 0]

NoTrim == [what |-> "none", before |-> <<>>, after |-> <<>>]

(* An LLM reply, by the sections the parser looks for.                      *)
(*   action: the token after "Action:" names a registered tool, names no    *)
(*           tool, or the section is absent                                 *)
(*   input:  what the text after "Action Input:" parses to                  *)
(*   final:  the text after "Final Answer:"                                 *)
ActionTokens == {"absent", "known", "unknown"}
InputTexts ==
    {"absent", "null", "json_not_object", "not_json", "wrong_keys",
     "args", "args_unknown_agent"}
FinalTexts == {"absent", "placeholder", "valid"}

Replies == [action : ActionTokens, input : InputTexts, final : FinalTexts]

(* ------------------------------------------------------------------ *)
(* Pure helpers                                                         *)
(* ------------------------------------------------------------------ *)

RECURSIVE CountRole(_, _)
CountRole(msgs, role) ==
    IF msgs = <<>> THEN 0
    ELSE (IF Head(msgs).role = role THEN 1 ELSE 0) + CountRole(Tail(msgs), role)

\* sum(1 for m in self._messages if m.get("role") == "user")
UserCount(msgs) == CountRole(msgs, "user")

RECURSIVE CountObservations(_)
CountObservations(msgs) ==
    IF msgs = <<>> THEN 0
    ELSE (IF Head(msgs).content \in {"Observation: data", "Observation: Error"} THEN 1 ELSE 0)
         + CountObservations(Tail(msgs))

\* The value of result["action_input"] after json.loads and its two fallbacks:
\* None when the section is absent or is the JSON null, the parsed value
\* otherwise; text that is no JSON even after the quote repair becomes the
\* mapping {"input": <raw text>}.
ParseActionInput(input) ==
    CASE input = "absent"          -> "None"
      [] input = "null"            -> "None"
      [] input = "json_not_object" -> "not_a_mapping"
      [] input = "not_json"        -> "mapping_input_only"
      [] input = "wrong_keys"      -> "mapping_wrong_keys"
      [] input = "args"            -> "mapping_args"
      [] input = "args_unknown_agent" -> "mapping_args_unknown_agent"

\* A Final Answer that is empty, starts with "[" or has at most 5 characters
\* is dropped.
ParseFinalAnswer(final) == IF final = "valid" THEN "answer" ELSE "None"

\* Agent._parse_react_output: with an Action section the function returns
\* before it looks for a Final Answer.
ParseReactOutput(reply) ==
    IF reply.action # "absent"
    THEN [action |-> reply.action,
          action_input |-> ParseActionInput(reply.input),
          final_answer |-> "None"]
    ELSE [action |-> "None",
          action_input |-> "None",
          final_answer |-> ParseFinalAnswer(reply.final)]

HasAction(parsed) == parsed.action # "None" /\ parsed.action_input # "None"
HasFinal(parsed) == parsed.final_answer # "None"

\* (mutant) only a tool that returned success opens the gate
Mut_GateNeedsSuccess(has_final, called, size) ==
    /\ has_final
    /\ size > 0
    /\ ~\E i \in 1..Len(loop_messages) : loop_messages[i].content = "Observation: data"

\* (mutant) the flag is read the wrong way round
Mut_MustCallToolFirst(has_final, called, size) == has_final /\ called /\ size > 0

\* The check before a Final Answer is accepted: tools exist and none was called.
MustCallToolFirst(has_final, called, size) == has_final /\ ~called /\ size > 0

\* self._toolkit.get(action)
ToolFound(action, size) == action = "known" /\ size > 0

\* str(ToolResult) inside f"Observation: {result}"
Observation(success) ==
    Msg("user", IF success THEN "Observation: data" ELSE "Observation: Error")

AssistantReply(parsed) ==
    Msg("assistant",
        IF HasFinal(parsed) THEN "reply with Final Answer"
        ELSE IF HasAction(parsed) THEN "reply with Action"
        ELSE "reply without Action or Final Answer")

RepairToolFirst == Msg("user", "repair: call a tool before Final Answer")
RepairFormat == Msg("user", "repair: format error, no Action")
RepairBoth == Msg("user", "repair: Action and Final Answer together")

(* ------------------------------------------------------------------ *)
(* Window trim                                                          *)
(* ------------------------------------------------------------------ *)

AutoSummary == TRUE

\* Agent._trim_messages
BaseTrim(msgs) ==
    IF UserCount(msgs) <= MessageWindow THEN msgs
    ELSE IF msgs # <<>> /\ Head(msgs).role = "user"
         THEN (IF Tail(msgs) # <<>> /\ Head(Tail(msgs)).role = "assistant"
               THEN Tail(Tail(msgs))
               ELSE Tail(msgs))
         ELSE msgs

\* What summarize_and_save does with a non-empty snapshot: "saved" (summary
\* generated, row inserted, returns True), "no_summary" (the LLM failed or gave
\* an empty summary, returns False), "insert_failed" (the insert raised,
\* returns False), "raised" (an exception reached _trim_messages).
SummariserOutcomes == {"saved", "no_summary", "insert_failed", "raised"}

MidTermRow(snapshot) ==
    [summary |-> "summary", raw_messages |-> snapshot,
     message_count |-> Len(snapshot), access_count |-> 0]

\* ConversationSummarizer.summarize_and_save: the rows of the table afterwards
SummarizeAndSave(rows, snapshot, s) ==
    IF snapshot # <<>> /\ s = "saved" THEN Append(rows, MidTermRow(snapshot)) ELSE rows

\* SystemAgent._trim_messages on the list msgs with summariser behaviour s:
\* the list afterwards, the table afterwards and what was done.
SystemTrim(msgs, rows, s) ==
    IF ~AutoSummary
    THEN [list |-> BaseTrim(msgs), rows |-> rows, what |-> "base", called |-> FALSE]
    ELSE IF UserCount(msgs) < MessageWindow
    THEN [list |-> msgs, rows |-> rows, what |-> "none", called |-> FALSE]
    ELSE IF s = "saved"
    THEN [list |-> <<>>, rows |-> SummarizeAndSave(rows, msgs, s),
          what |-> "summarised", called |-> TRUE]
    ELSE [list |-> BaseTrim(msgs), rows |-> SummarizeAndSave(rows, msgs, s),
          what |-> "fallback", called |-> TRUE]

(* ------------------------------------------------------------------ *)
(* Construction                                                         *)
(* ------------------------------------------------------------------ *)

\* SystemAgent.__init__ binds self._messages to a new list (object 1) and hands
\* it to CallAgentTool; Agent.__init__, called next, binds self._messages to
\* another new list (object 2). A plain agent has the one list of Agent.__init__.
SystemAgentInit ==
    /\ heap = << <<>>, <<>> >>
    /\ messages_ref_obj = 1
    /\ messages_obj = 2
    /\ toolkit_size = 1

PlainAgentInit ==
    /\ heap = << <<>> >>
    /\ messages_ref_obj = 0
    /\ messages_obj = 1
    /\ toolkit_size \in {0, 1}

AgentInit ==
    /\ kind \in {"system", "plain"}
    /\ IF kind = "system" THEN SystemAgentInit ELSE PlainAgentInit
    /\ loop_messages = <<>>
    /\ pc = "idle"
    /\ iteration = 0
    /\ has_called_tool = FALSE
    /\ user_input = ""
    /\ outcome = NoOutcome
    /\ dispatch = NoDispatch
    /\ tool_runs = <<>>
    /\ final_steps = <<>>
    /\ mid_term = <<>>
    /\ trim = NoTrim
    /\ now = 0
    /\ turns = 0
    /\ adds = 0
    /\ summarizer_calls = 0
    /\ final_turns = 0
    /\ llm_calls = 0
    /\ llm_failed = FALSE
    /\ response = NoResponse

(* ------------------------------------------------------------------ *)
(* Tool invocation from the loop                                        *)
(* ------------------------------------------------------------------ *)

\* How the tool's execute (or the callee's invoke) behaves: it returns ok, it
\* returns fail, or it raises.
ToolOutcomes == {"ok", "fail", "raise"}

\* on_event(ACTION, ...) of the System, Memory and Character agents iterates
\* tool_args.items(), and tool.safe_execute(**action_input) unpacks
\* action_input at the call site: both raise, outside any try of the loop,
\* when action_input is no mapping.
ActionRaises(parsed) ==
    /\ parsed.action_input = "not_a_mapping"
    /\ (kind # "plain" \/ ToolFound(parsed.action, toolkit_size))

\* CallAgentTool.execute reaches agent.invoke: the arguments bind to
\* (agent_name, input, **kwargs) and the registry knows agent_name
\* ("mapping_args_unknown_agent" binds, but the registry has no such agent).
Dispatches(parsed) ==
    /\ kind = "system"
    /\ ToolFound(parsed.action, toolkit_size)
    /\ parsed.action_input = "mapping_args"

\* conversation_history = list(self._messages_ref)
InjectedHistory == heap[messages_ref_obj]

\* (mutant) call_agent reports success whatever the callee's response says
Mut_ToolSucceeds(parsed, t) ==
    IF ~ToolFound(parsed.action, toolkit_size) THEN FALSE
    ELSE IF kind = "system"
         THEN Dispatches(parsed)
         ELSE parsed.action_input # "mapping_wrong_keys" /\ t = "ok"

\* ToolResult.success of the Action branch, for tool behaviour t.
ToolSucceeds(parsed, t) ==
    IF ~ToolFound(parsed.action, toolkit_size) THEN FALSE
    ELSE IF kind = "system"
         THEN Dispatches(parsed) /\ t = "ok"
         ELSE parsed.action_input # "mapping_wrong_keys" /\ t = "ok"

(* ------------------------------------------------------------------ *)
(* Operations                                                           *)
(* ------------------------------------------------------------------ *)

\* (mutant) the new run's two messages are appended to the transcript of the
\* run before
Mut_CarriedTranscript(text) ==
    loop_messages \o <<Msg("system", "system prompt"), Msg("user", text)>>

\* the list _init_loop binds _loop_messages to
FreshTranscript(text) == <<Msg("system", "system prompt"), Msg("user", text)>>

\* Agent.run up to the first LLM call: _init_loop resets the transcript.
InitLoop ==
    /\ pc = "idle"
    /\ turns < MaxTurns
    /\ \E text \in UserTexts :
        /\ user_input' = text
        /\ loop_messages' = FreshTranscript(text)
    /\ pc' = "loop"
    /\ iteration' = 0
    /\ has_called_tool' = FALSE
    /\ outcome' = NoOutcome
    /\ dispatch' = NoDispatch
    /\ tool_runs' = <<>>
    /\ final_steps' = <<>>
    /\ trim' = NoTrim
    /\ turns' = turns + 1
    /\ llm_calls' = 0
    /\ llm_failed' = FALSE
    /\ UNCHANGED <<kind, toolkit_size, heap, messages_obj, messages_ref_obj,
                   mid_term, now, adds, summarizer_calls, final_turns>>
    /\ UNCHANGED <<memoryVars, toolkitVars, parserVars, callAgentVars,
                 serviceVars,
                 dedupeVars,
                 bm25Vars,
                 emotionVars,
                 extractVars,
                 accessVars,
                 longVars,
                 normVars,
                 releaseVars,
                 sessionVars,
                 partitionVars,
                 dialogueVars>>

\* Agent.run is called on the agent itself (no invoke around it)
Run ==
    /\ kind \notin SubAgents
    /\ InitLoop
    /\ UNCHANGED response

\* (mutant) invoke lets the exception through
Mut_NotCaught(error) ==
    [returned |-> FALSE, content |-> "", success |-> FALSE, error |-> None]

\* the except branch of invoke
Caught(error) ==
    [returned |-> TRUE, content |-> "", success |-> FALSE, error |-> error]

\* the return of invoke: the run's result as an AgentResponse, or the except
\* branch when the run raised
ResponseOf(o) ==
    IF o.kind = "exception" THEN Caught(o.error)
    ELSE [returned |-> TRUE, content |-> o.answer, success |-> o.success,
          error |-> o.error]

\* the fixed answer of ChatPipeline.chat's except branch
Apology == "sorry, I ran into a problem, please try again later"

\* ChatPipeline.chat: the result of SystemAgent.run as a dict, or the apology
\* when run raised
ChatReturn(o) ==
    IF o.kind = "exception"
    THEN [answer |-> Apology, iterations |-> 0, success |-> FALSE, error |-> o.error]
    ELSE [answer |-> o.answer, iterations |-> o.iterations, success |-> o.success,
          error |-> o.error]

\* What invoke does before run: MemoryAgent reads message.content[:50] and
\* len(conversation_history), which raise for a content or history of the
\* wrong type.
SetupFaults == {"none", "TypeError"}

\* CharacterAgent.run works on the base result (emotion extraction) before
\* invoke builds the response.
PostOutcomes(k, o) ==
    IF k = "character" /\ o.kind = "result" THEN {"ok", "raises"} ELSE {"ok"}

\* MemoryAgent.invoke / CharacterAgent.invoke up to the first LLM call
Invoke ==
    /\ kind \in SubAgents
    /\ pc = "idle"
    /\ turns < MaxTurns
    /\ \E fault \in (IF kind = "memory" THEN SetupFaults ELSE {"none"}) :
        IF fault = "none"
        THEN /\ InitLoop
             /\ response' = NoResponse
        ELSE /\ response' = Caught(fault)
             /\ turns' = turns + 1
             /\ UNCHANGED <<kind, toolkit_size, heap, messages_obj, messages_ref_obj,
                            loop_messages, pc, iteration, has_called_tool,
                            user_input, outcome, dispatch, tool_runs, final_steps, mid_term,
                            trim, now,
                            adds, summarizer_calls, final_turns, llm_calls,
                            llm_failed>>
             /\ UNCHANGED <<memoryVars, toolkitVars, parserVars, callAgentVars,
                 serviceVars,
                 dedupeVars,
                 bm25Vars,
                 emotionVars,
                 extractVars,
                 accessVars,
                 longVars,
                 normVars,
                 releaseVars,
                 sessionVars,
                 partitionVars,
                 dialogueVars>>

\* When the run of a sub-agent ends, invoke returns in the same step.
InvokeReturns ==
    IF kind \in SubAgents /\ pc' = "idle"
    THEN \E post \in PostOutcomes(kind, outcome') :
            response' = IF post = "raises" THEN Caught("ValueError")
                        ELSE ResponseOf(outcome')
    ELSE response' = response

\* (mutant) the result after the for loop counts the last loop index and
\* holds no transcript
Mut_Continue(msgs, called) ==
    /\ loop_messages' = msgs
    /\ has_called_tool' = called
    /\ IF iteration + 1 < MaxIterations
       THEN /\ pc' = "loop"
            /\ iteration' = iteration + 1
            /\ outcome' = outcome
       ELSE /\ pc' = "idle"
            /\ iteration' = iteration
            /\ outcome' = [kind |-> "result", success |-> FALSE, answer |-> "",
                           iterations |-> iteration,
                           error |-> "Exceeded max iterations", trace |-> <<>>]

\* "continue": the next iteration, or the result after the for loop.
Continue(msgs, called) ==
    /\ loop_messages' = msgs
    /\ has_called_tool' = called
    /\ IF iteration + 1 < MaxIterations
       THEN /\ pc' = "loop"
            /\ iteration' = iteration + 1
            /\ outcome' = outcome
       ELSE /\ pc' = "idle"
            /\ iteration' = iteration
            /\ outcome' = [kind |-> "result", success |-> FALSE, answer |-> "",
                           iterations |-> MaxIterations,
                           error |-> "Exceeded max iterations", trace |-> msgs]

\* An exception leaves _react_loop and run.
Raise(error) ==
    /\ pc' = "idle"
    /\ outcome' = [kind |-> "exception", success |-> FALSE, answer |-> "",
                   iterations |-> iteration, error |-> error, trace |-> loop_messages]
    /\ UNCHANGED <<loop_messages, iteration, has_called_tool>>

SystemState == <<heap, mid_term, trim, now, summarizer_calls, final_turns>>

\* Action and Final Answer in one parse result.
RejectBoth ==
    /\ Continue(Append(loop_messages, RepairBoth), has_called_tool)
    /\ UNCHANGED <<SystemState, dispatch, tool_runs, final_steps>>

\* Final Answer before any tool call, with tools available.
RejectEarlyFinal(parsed) ==
    /\ Continue(loop_messages \o <<AssistantReply(parsed), RepairToolFirst>>,
                has_called_tool)
    /\ UNCHANGED <<SystemState, dispatch, tool_runs, final_steps>>

\* SystemAgent._on_final_answer: record the reply, then trim.
OnFinalAnswer(answer, s) ==
    IF kind = "system"
    THEN LET appended == Append(heap[messages_obj], StampedMsg("assistant", answer, now))
             t == SystemTrim(appended, mid_term, s)
         IN /\ heap' = [heap EXCEPT ![messages_obj] = t.list]
            /\ mid_term' = t.rows
            /\ trim' = [what |-> t.what, before |-> appended, after |-> t.list]
            /\ summarizer_calls' = summarizer_calls + (IF t.called THEN 1 ELSE 0)
            /\ now' = now + 1
    ELSE UNCHANGED <<heap, mid_term, trim, summarizer_calls, now>>

\* what the finalise LLM call may answer: nothing, an object of the schema,
\* an object whose related_memory is null, a JSON array, text that is no JSON
FinaliseReplies ==
    {"", "{\"related_memory\": {}}", "{\"related_memory\": null}", "[]", "no json"}

\* json.loads(raw)
JsonLoads(raw) ==
    CASE raw \in {"{}", "{\"related_memory\": {}}"} ->
             [parses |-> TRUE, is_object |-> TRUE, related_memory |-> "object"]
      [] raw = "{\"related_memory\": null}" ->
             [parses |-> TRUE, is_object |-> TRUE, related_memory |-> "null"]
      [] raw = "[]" ->
             [parses |-> TRUE, is_object |-> FALSE, related_memory |-> "absent"]
      [] OTHER ->
             [parses |-> FALSE, is_object |-> FALSE, related_memory |-> "absent"]

\* MemoryAgent.format_final_output calls data.get and then mem.get: a value
\* that is no mapping in either place raises AttributeError
FormatRaises(data) == ~data.is_object \/ data.related_memory = "null"

\* _finalize_output after the finalise call returned `content`
FinalizeOutcomeOf(content) ==
    LET raw == IF content = "" THEN "{}" ELSE content
        data == JsonLoads(raw)
    IN  IF ~data.parses THEN "raw"
        ELSE IF FormatRaises(data) THEN "AttributeError"
        ELSE "formatted"

\* _finalize_output: without a response schema the answer is returned as it
\* is; with one (the Memory agent) a further LLM call is made, which may
\* raise, and its JSON is formatted (format_final_output raises on JSON that
\* is no object) or, when it does not parse, returned raw.
FinalizeOutcomes(k) ==
    IF k = "memory"
    THEN {"LLMRequestError"} \cup {FinalizeOutcomeOf(content) : content \in FinaliseReplies}
    ELSE {"as_is"}

FinalizeOutput(final_answer, f) ==
    CASE f = "as_is" -> final_answer
      [] f = "formatted" -> "formatted memory"
      [] f = "raw" -> "raw reply"

\* one step of the Final Answer branch and the text it worked on
Step(name, text) == [step |-> name, text |-> text]

\* (mutant) the hook runs on the parsed Final Answer before the finalisation
Mut_FinalSteps(final_answer, f) ==
    IF f \in {"LLMRequestError", "AttributeError"}
    THEN <<Step("append", "reply with Final Answer"),
           Step("_on_final_answer", final_answer), Step("_finalize_output", f)>>
    ELSE <<Step("append", "reply with Final Answer"),
           Step("_on_final_answer", final_answer),
           Step("_finalize_output", FinalizeOutput(final_answer, f)),
           Step("yield", FinalizeOutput(final_answer, f))>>

\* The Final Answer branch in the order of its statements: the reply is
\* appended to _loop_messages, _finalize_output runs, then _on_final_answer
\* on what it returned, then the result is yielded; an exception in
\* _finalize_output ends the branch there.
FinalSteps(final_answer, f) ==
    IF f \in {"LLMRequestError", "AttributeError"}
    THEN <<Step("append", "reply with Final Answer"), Step("_finalize_output", f)>>
    ELSE <<Step("append", "reply with Final Answer"),
           Step("_finalize_output", FinalizeOutput(final_answer, f)),
           Step("_on_final_answer", FinalizeOutput(final_answer, f)),
           Step("yield", FinalizeOutput(final_answer, f))>>

\* A valid Final Answer: the result is yielded and the loop returns.
AcceptFinal(parsed) ==
    LET msgs == Append(loop_messages, AssistantReply(parsed))
    IN \E f \in FinalizeOutcomes(kind) :
        IF f \in {"LLMRequestError", "AttributeError"}
        THEN /\ loop_messages' = msgs
             /\ pc' = "idle"
             /\ outcome' = [kind |-> "exception", success |-> FALSE, answer |-> "",
                            iterations |-> iteration, error |-> f, trace |-> msgs]
             /\ final_steps' = FinalSteps(parsed.final_answer, f)
             /\ UNCHANGED <<iteration, has_called_tool, dispatch, tool_runs,
                            SystemState>>
        ELSE /\ loop_messages' = msgs
             /\ \E s \in SummariserOutcomes :
                    OnFinalAnswer(FinalizeOutput(parsed.final_answer, f), s)
             /\ outcome' = [kind |-> "result", success |-> TRUE,
                            answer |-> FinalizeOutput(parsed.final_answer, f),
                            iterations |-> iteration + 1,
                            error |-> None, trace |-> msgs]
             /\ pc' = "idle"
             /\ final_turns' = final_turns + 1
             /\ final_steps' = FinalSteps(parsed.final_answer, f)
             /\ UNCHANGED <<iteration, has_called_tool, dispatch, tool_runs>>

\* The Action branch: look the tool up, run it, append the Observation.
DoAction(parsed) ==
    IF ActionRaises(parsed)
    THEN /\ Raise("TypeError")
         /\ UNCHANGED <<SystemState, dispatch, tool_runs, final_steps>>
    ELSE /\ \E t \in ToolOutcomes :
              /\ Continue(loop_messages \o
                            <<AssistantReply(parsed), Observation(ToolSucceeds(parsed, t))>>,
                          TRUE)
              /\ dispatch' =
                   IF Dispatches(parsed)
                   THEN [made |-> TRUE, history |-> InjectedHistory,
                         system_messages |-> heap[messages_obj], input |-> user_input,
                         callee |-> t, at |-> iteration + 1]
                   ELSE dispatch
         /\ tool_runs' =
              IF ToolFound(parsed.action, toolkit_size)
              THEN Append(tool_runs, iteration + 1) ELSE tool_runs
         /\ UNCHANGED <<SystemState, final_steps>>

\* (mutant) no repair message is appended
Mut_NoActionNoFinal(parsed) ==
    /\ Continue(Append(loop_messages, AssistantReply(parsed)), has_called_tool)
    /\ UNCHANGED <<SystemState, dispatch, tool_runs, final_steps>>

\* Neither: a repair message, except in the last iteration.
NoActionNoFinal(parsed) ==
    /\ Continue(IF iteration < MaxIterations - 1
                THEN loop_messages \o <<AssistantReply(parsed), RepairFormat>>
                ELSE Append(loop_messages, AssistantReply(parsed)),
                has_called_tool)
    /\ UNCHANGED <<SystemState, dispatch, tool_runs, final_steps>>

\* The body of the for loop of Agent._react_loop after the LLM replied.
LoopBody(parsed) ==
    IF HasAction(parsed) /\ HasFinal(parsed) THEN RejectBoth
    ELSE IF MustCallToolFirst(HasFinal(parsed), has_called_tool, toolkit_size)
    THEN RejectEarlyFinal(parsed)
    ELSE IF HasFinal(parsed) THEN AcceptFinal(parsed)
    ELSE IF HasAction(parsed) THEN DoAction(parsed)
    ELSE NoActionNoFinal(parsed)

\* One iteration of the ReAct loop in which the LLM call returns a reply.
ReactIteration ==
    /\ pc = "loop"
    /\ \E reply \in Replies : LoopBody(ParseReactOutput(reply))
    /\ llm_calls' = llm_calls + 1
    /\ InvokeReturns
    /\ UNCHANGED <<kind, toolkit_size, messages_obj, messages_ref_obj,
                   user_input, turns, adds, llm_failed>>
    /\ UNCHANGED <<memoryVars, toolkitVars, parserVars, callAgentVars,
                 serviceVars,
                 dedupeVars,
                 bm25Vars,
                 emotionVars,
                 extractVars,
                 accessVars,
                 longVars,
                 normVars,
                 releaseVars,
                 sessionVars,
                 partitionVars,
                 dialogueVars>>

\* (mutant) the failure is turned into an Observation and the loop goes on
Mut_LLMCallAbsorbed ==
    /\ pc = "loop"
    /\ Continue(Append(loop_messages, Observation(FALSE)), has_called_tool)
    /\ llm_calls' = llm_calls + 1
    /\ llm_failed' = TRUE
    /\ InvokeReturns
    /\ UNCHANGED <<kind, toolkit_size, messages_obj, messages_ref_obj,
                   user_input, turns, adds, SystemState, dispatch, tool_runs, final_steps>>
    /\ UNCHANGED <<memoryVars, toolkitVars, parserVars, callAgentVars,
                 serviceVars,
                 dedupeVars,
                 bm25Vars,
                 emotionVars,
                 extractVars,
                 accessVars,
                 longVars,
                 normVars,
                 releaseVars,
                 sessionVars,
                 partitionVars,
                 dialogueVars>>

\* One iteration in which self._llm.chat raises (LLMRequestError).
LLMCallRaises ==
    /\ pc = "loop"
    /\ Raise("LLMRequestError")
    /\ llm_calls' = llm_calls + 1
    /\ llm_failed' = TRUE
    /\ InvokeReturns
    /\ UNCHANGED <<kind, toolkit_size, messages_obj, messages_ref_obj,
                   user_input, turns, adds, SystemState, dispatch, tool_runs, final_steps>>
    /\ UNCHANGED <<memoryVars, toolkitVars, parserVars, callAgentVars,
                 serviceVars,
                 dedupeVars,
                 bm25Vars,
                 emotionVars,
                 extractVars,
                 accessVars,
                 longVars,
                 normVars,
                 releaseVars,
                 sessionVars,
                 partitionVars,
                 dialogueVars>>

\* Agent.add_message
AddMessage ==
    /\ pc = "idle"
    /\ kind = "system"
    /\ adds < MaxAdds
    /\ \E role \in AddedRoles, text \in UserTexts :
           heap' = [heap EXCEPT ![messages_obj] = Append(@, Msg(role, text))]
    /\ adds' = adds + 1
    /\ UNCHANGED <<kind, toolkit_size, messages_obj, messages_ref_obj, loop_messages,
                   pc, iteration, has_called_tool, user_input, outcome, dispatch, tool_runs, final_steps,
                   mid_term, trim, now, turns, summarizer_calls, final_turns,
                   llm_calls, llm_failed, response>>
    /\ UNCHANGED <<memoryVars, toolkitVars, parserVars, callAgentVars,
                 serviceVars,
                 dedupeVars,
                 bm25Vars,
                 emotionVars,
                 extractVars,
                 accessVars,
                 longVars,
                 normVars,
                 releaseVars,
                 sessionVars,
                 partitionVars,
                 dialogueVars>>

\* SystemAgent.clear_history: the list is emptied in place.
ClearHistory ==
    /\ pc = "idle"
    /\ kind = "system"
    /\ heap' = [heap EXCEPT ![messages_obj] = <<>>]
    /\ loop_messages' = <<>>
    /\ final_turns' = 0
    /\ UNCHANGED <<kind, toolkit_size, messages_obj, messages_ref_obj,
                   pc, iteration, has_called_tool, user_input, outcome, dispatch, tool_runs, final_steps,
                   mid_term, trim, now, turns, adds, summarizer_calls,
                   llm_calls, llm_failed, response>>
    /\ UNCHANGED <<memoryVars, toolkitVars, parserVars, callAgentVars,
                 serviceVars,
                 dedupeVars,
                 bm25Vars,
                 emotionVars,
                 extractVars,
                 accessVars,
                 longVars,
                 normVars,
                 releaseVars,
                 sessionVars,
                 partitionVars,
                 dialogueVars>>

(* ------------------------------------------------------------------ *)
(* Memory manager: access counting and promotion                        *)
(* ------------------------------------------------------------------ *)

\* rows the mid-term table may hold
MaxRows == 2
\* cap on an in-process access counter
MaxAccess == 4

PROMOTION_THRESHOLD == 3

MidIds == 1..MaxRows

\* the value of `stored` before any store_long_term call
NotStored ==
    [called |-> FALSE, content |-> <<>>, returned |-> None, raised |-> FALSE,
     inserted |-> FALSE, record |-> None]

MemoryIdle ==
    /\ mid_table = {}
    /\ long_term = {}
    /\ access_counter = [id \in MidIds |-> 0]
    /\ promoted_away = {}
    /\ promo_selected = {}
    /\ store_calls = 0
    /\ stored = NotStored

MemoryInit ==
    /\ mid_table \in SUBSET MidIds
    /\ long_term = {}
    /\ access_counter = [id \in MidIds |-> 0]
    /\ promoted_away = {}
    /\ promo_selected = {}
    /\ store_calls = 0
    /\ stored = NotStored

\* MemoryManager._update_access_counts for the ids a mid-term search returned
UpdateAccessCounts ==
    /\ \E ids \in SUBSET mid_table :
        /\ ids # {}
        /\ \A id \in ids : access_counter[id] < MaxAccess
        /\ access_counter' =
              [id \in MidIds |-> access_counter[id] + (IF id \in ids THEN 1 ELSE 0)]
    /\ UNCHANGED <<mid_table, long_term, promoted_away, promo_selected,
                   store_calls, stored>>
    /\ UNCHANGED <<agentVars, toolkitVars, parserVars, callAgentVars,
                 serviceVars,
                 dedupeVars,
                 bm25Vars,
                 emotionVars,
                 extractVars,
                 accessVars,
                 longVars,
                 normVars,
                 releaseVars,
                 sessionVars,
                 partitionVars,
                 dialogueVars>>

\* What the steps of promoting one row do: the select, normalising and
\* embedding the summary, the vector insert, the delete.
PromotionSteps ==
    [select : {"row", "raises"},
     embed : {"vector", "empty", "raises"},
     insert : {"inserted", "inserted_none", "raises"},
     delete : {"deleted", "raises"}]

\* _promote_to_long_term gets as far as storage.vector_insert
ReachesInsert(o) == o.select = "row" /\ o.embed = "vector"

\* the runs of one promotion; a step that is not reached has no outcome of
\* its own, so it is fixed to its first value
PromotionRuns ==
    {o \in PromotionSteps :
        /\ (o.select = "raises" => o.embed = "vector")
        /\ (~ReachesInsert(o) => o.insert = "inserted")
        /\ (~(ReachesInsert(o) /\ o.insert # "raises") => o.delete = "deleted")}

\* the long-term record is in the store afterwards
Inserts(o) == ReachesInsert(o) /\ o.insert = "inserted"

\* _delete_mid_term_record is called: vector_insert returned without raising
CallsDelete(o) == ReachesInsert(o) /\ o.insert # "raises"

PromotedRecord(id) ==
    [memory_type |-> "promoted", source |-> "mid_term", source_id |-> id]

\* (mutant) the counter has to exceed the threshold
Mut_HighFrequency(threshold) == {id \in MidIds : access_counter[id] > threshold}

\* promote_high_frequency: every id whose counter reached the threshold
HighFrequency(threshold) == {id \in MidIds : access_counter[id] >= threshold}

\* MemoryManager.promote_high_frequency (also run by close)
PromoteHighFrequency ==
    /\ \E o \in [HighFrequency(PROMOTION_THRESHOLD) -> PromotionRuns] :
        LET ids == HighFrequency(PROMOTION_THRESHOLD) \cap mid_table
            gone == {id \in ids : CallsDelete(o[id]) /\ o[id].delete = "deleted"}
        IN /\ long_term' = long_term \cup {PromotedRecord(id) : id \in {i \in ids : Inserts(o[i])}}
           /\ mid_table' = mid_table \ gone
           /\ promoted_away' = promoted_away \cup gone
    /\ promo_selected' = HighFrequency(PROMOTION_THRESHOLD)
    /\ access_counter' = [id \in MidIds |-> 0]
    /\ UNCHANGED <<store_calls, stored>>
    /\ UNCHANGED <<agentVars, toolkitVars, parserVars, callAgentVars,
                 serviceVars,
                 dedupeVars,
                 bm25Vars,
                 emotionVars,
                 extractVars,
                 accessVars,
                 longVars,
                 normVars,
                 releaseVars,
                 sessionVars,
                 partitionVars,
                 dialogueVars>>

MemoryNext == UpdateAccessCounts \/ PromoteHighFrequency

(* ------------------------------------------------------------------ *)
(* ToolKit.execute                                                      *)
(* ------------------------------------------------------------------ *)

\* longest batch of tool calls
MaxBatch == 2

DefaultMaxWorkers == 5

CallIds == {"c1", "c2"}
\* "echo" returns ok, "picky" is called with arguments its execute does not
\* take (TypeError), "boom" raises another exception inside execute,
\* "missing" is not registered
ToolNames == {"echo", "picky", "boom", "missing"}

\* args: a mapping, or a value that ** cannot unpack (one tool stands for all
\* registered tools there: the failure comes before the tool is entered)
ToolCalls ==
    {c \in [call_id : CallIds, name : ToolNames, args : {"mapping", "not_a_mapping"}] :
        c.args = "not_a_mapping" => c.name = "echo"}

Batches == UNION {[1..n -> ToolCalls] : n \in 0..MaxBatch}

Min(a, b) == IF a < b THEN a ELSE b

ToolKitIdle ==
    /\ tk_pc = "idle"
    /\ tk_calls = <<>>
    /\ tk_workers = 0
    /\ tk_status = <<>>
    /\ tk_results = <<>>
    /\ tk_order = <<>>
    /\ tk_returned = <<>>

\* ToolResult.ok / ToolResult.fail; lists_args: the error text ends with the
\* list of the received argument names
ToolOk == [success |-> TRUE, error |-> None, lists_args |-> FALSE]
ToolFail(error, lists_args) ==
    [success |-> FALSE, error |-> error, lists_args |-> lists_args]

\* what execute does in each tool
ToolBehaviour(name) ==
    CASE name = "echo" -> "returns"
      [] name = "picky" -> "TypeError"
      [] name = "boom" -> "Exception"

\* (mutant) every failure is reported with the argument names
Mut_SafeExecute(behaviour) ==
    CASE behaviour = "returns" -> ToolOk
      [] behaviour = "TypeError" -> ToolFail("argument error", TRUE)
      [] behaviour = "Exception" -> ToolFail("argument error", TRUE)

\* Tool.safe_execute: a TypeError becomes fail("... received: [names]"), any
\* other Exception becomes fail("Execution error: ...")
SafeExecute(behaviour) ==
    CASE behaviour = "returns" -> ToolOk
      [] behaviour = "TypeError" -> ToolFail("argument error", TRUE)
      [] behaviour = "Exception" -> ToolFail("Execution error", FALSE)

\* _execute_one in the worker thread, and future.result() in the collector:
\* an unknown name returns fail; arguments that cannot be unpacked raise in
\* the worker, outside safe_execute, and the collector turns that into fail.
FutureResult(call) ==
    IF call.name = "missing" THEN ToolFail("Unknown tool: missing", FALSE)
    ELSE IF call.args = "not_a_mapping" THEN ToolFail("Parallel execution error", FALSE)
    ELSE SafeExecute(ToolBehaviour(call.name))

\* the ToolResult of call i, with the call it came from
ExecuteOne(calls, i) ==
    [success |-> FutureResult(calls[i]).success,
     error |-> FutureResult(calls[i]).error,
     lists_args |-> FutureResult(calls[i]).lists_args,
     from_call |-> i]

\* results[call_id] = (name, result) on a dict that keeps insertion order
DictSet(results, call_id, name, result) ==
    IF \E k \in 1..Len(results) : results[k].call_id = call_id
    THEN [k \in 1..Len(results) |->
            IF results[k].call_id = call_id
            THEN [call_id |-> call_id, name |-> name, result |-> result]
            ELSE results[k]]
    ELSE Append(results, [call_id |-> call_id, name |-> name, result |-> result])

DictGet(results, call_id) ==
    CHOOSE r \in {results[k] : k \in 1..Len(results)} : r.call_id = call_id

\* (mutant) the results are returned in the order they completed
Mut_CompletionOrder(calls, results) == results

\* the returned list: one entry per call, looked up by call_id, in caller order
InCallerOrder(calls, results) ==
    [i \in 1..Len(calls) |->
        [call_id |-> calls[i].call_id,
         name |-> DictGet(results, calls[i].call_id).name,
         result |-> DictGet(results, calls[i].call_id).result]]

\* ToolKit.execute is called: an empty batch returns [] at once, otherwise
\* every call is submitted to the pool.
TkExecute ==
    /\ tk_pc = "idle"
    /\ \E batch \in Batches, workers \in {1, DefaultMaxWorkers} :
        /\ tk_calls' = batch
        /\ tk_workers' = IF batch = <<>> THEN 0 ELSE Min(workers, Len(batch))
        /\ tk_status' = [i \in 1..Len(batch) |-> "queued"]
        /\ tk_pc' = IF batch = <<>> THEN "returned" ELSE "executing"
    /\ UNCHANGED <<tk_results, tk_order, tk_returned>>
    /\ UNCHANGED <<agentVars, memoryVars, parserVars, callAgentVars,
                 serviceVars,
                 dedupeVars,
                 bm25Vars,
                 emotionVars,
                 extractVars,
                 accessVars,
                 longVars,
                 normVars,
                 releaseVars,
                 sessionVars,
                 partitionVars,
                 dialogueVars>>

Running == {i \in 1..Len(tk_calls) : tk_status[i] = "running"}

\* a free worker thread takes the oldest queued call
TkStart ==
    /\ tk_pc = "executing"
    /\ Cardinality(Running) < tk_workers
    /\ \E i \in 1..Len(tk_calls) :
        /\ tk_status[i] = "queued"
        /\ \A j \in 1..(i - 1) : tk_status[j] # "queued"
        /\ tk_status' = [tk_status EXCEPT ![i] = "running"]
    /\ UNCHANGED <<tk_pc, tk_calls, tk_workers, tk_results, tk_order, tk_returned>>
    /\ UNCHANGED <<agentVars, memoryVars, parserVars, callAgentVars,
                 serviceVars,
                 dedupeVars,
                 bm25Vars,
                 emotionVars,
                 extractVars,
                 accessVars,
                 longVars,
                 normVars,
                 releaseVars,
                 sessionVars,
                 partitionVars,
                 dialogueVars>>

\* a worker thread finishes its call
TkFinish ==
    /\ tk_pc = "executing"
    /\ \E i \in Running : tk_status' = [tk_status EXCEPT ![i] = "finished"]
    /\ UNCHANGED <<tk_pc, tk_calls, tk_workers, tk_results, tk_order, tk_returned>>
    /\ UNCHANGED <<agentVars, memoryVars, parserVars, callAgentVars,
                 serviceVars,
                 dedupeVars,
                 bm25Vars,
                 emotionVars,
                 extractVars,
                 accessVars,
                 longVars,
                 normVars,
                 releaseVars,
                 sessionVars,
                 partitionVars,
                 dialogueVars>>

\* as_completed yields a finished future; its result goes into the dict
TkCollect ==
    /\ tk_pc = "executing"
    /\ \E i \in 1..Len(tk_calls) :
        /\ tk_status[i] = "finished"
        /\ tk_status' = [tk_status EXCEPT ![i] = "collected"]
        /\ tk_results' = DictSet(tk_results, tk_calls[i].call_id, tk_calls[i].name,
                                 ExecuteOne(tk_calls, i))
        /\ tk_order' = Append(tk_order, i)
    /\ UNCHANGED <<tk_pc, tk_calls, tk_workers, tk_returned>>
    /\ UNCHANGED <<agentVars, memoryVars, parserVars, callAgentVars,
                 serviceVars,
                 dedupeVars,
                 bm25Vars,
                 emotionVars,
                 extractVars,
                 accessVars,
                 longVars,
                 normVars,
                 releaseVars,
                 sessionVars,
                 partitionVars,
                 dialogueVars>>

\* every future was collected: the list is built and returned
TkReturn ==
    /\ tk_pc = "executing"
    /\ \A i \in 1..Len(tk_calls) : tk_status[i] = "collected"
    /\ tk_returned' = InCallerOrder(tk_calls, tk_results)
    /\ tk_pc' = "returned"
    /\ UNCHANGED <<tk_calls, tk_workers, tk_status, tk_results, tk_order>>
    /\ UNCHANGED <<agentVars, memoryVars, parserVars, callAgentVars,
                 serviceVars,
                 dedupeVars,
                 bm25Vars,
                 emotionVars,
                 extractVars,
                 accessVars,
                 longVars,
                 normVars,
                 releaseVars,
                 sessionVars,
                 partitionVars,
                 dialogueVars>>

ToolKitNext == TkExecute \/ TkStart \/ TkFinish \/ TkCollect \/ TkReturn

(* ------------------------------------------------------------------ *)
(* Agent._parse_react_output on the text of a reply                     *)
(* ------------------------------------------------------------------ *)

\* longest Final Answer text
MaxText == 6

\* the characters of a Final Answer text: the placeholder bracket, a letter
\* and white space
Chars == {"[", "a", " "}

Texts == UNION {[1..n -> Chars] : n \in 0..MaxText}

\* a missing final_answer, where a text may stand
NoText == <<None>>

\* A reply in the order of the format: Thought, Action, Action Input, Final
\* Answer. action: the section is absent, its marker is followed by no name
\* ("empty"), or it names the tool foo. input: what follows "Action Input:".
\* final_marker: "Final Answer:" is there; final_text: what follows it.
ReplyTexts ==
    {r \in [action : {"absent", "empty", "foo"},
            input : {"absent", "object", "list", "text"},
            final_marker : BOOLEAN,
            final_text : Texts] : ~r.final_marker => r.final_text = <<>>}

\* str.strip()
RECURSIVE StripLeft(_)
StripLeft(t) ==
    IF t # <<>> /\ Head(t) = " " THEN StripLeft(Tail(t)) ELSE t

RECURSIVE StripRight(_)
StripRight(t) ==
    IF t # <<>> /\ t[Len(t)] = " " THEN StripRight(SubSeq(t, 1, Len(t) - 1)) ELSE t

Strip(t) == StripRight(StripLeft(t))

\* re.search(r"Action:\s*(\S+)"): the first run of non-space characters after
\* the marker, which is the next section's first word when no name follows
\* ("Action Input:" does not itself match "Action:").
ActionToken(r) ==
    CASE r.action = "absent" -> None
      [] r.action = "foo" -> "foo"
      [] r.action = "empty" ->
            IF r.input # "absent" THEN "Action"
            ELSE IF r.final_marker THEN "Final"
            ELSE None

\* json.loads of the Action Input text, with the quote repair and the
\* fallback to {"input": text}
ActionInputValue(input) ==
    CASE input = "absent" -> None
      [] input = "object" -> "{x: 1}"
      [] input = "list" -> "[1, 2]"
      [] input = "text" -> "{input: text}"

\* final_answer and not final_answer.startswith("[") and len(final_answer) > 5
KeepFinalAnswer(t) == t # <<>> /\ t[1] # "[" /\ Len(t) > 5

\* (mutant) the Final Answer is parsed although an Action was found
Mut_FinalAfterAction(r) ==
    IF r.final_marker /\ KeepFinalAnswer(Strip(r.final_text))
    THEN Strip(r.final_text) ELSE NoText

\* with an Action found the function returns before the Final Answer search
FinalAfterAction(r) == NoText

ParseReply(r) ==
    IF ActionToken(r) # None
    THEN [action |-> ActionToken(r),
          action_input |-> ActionInputValue(r.input),
          final_answer |-> FinalAfterAction(r)]
    ELSE [action |-> None,
          action_input |-> None,
          final_answer |->
              IF r.final_marker /\ KeepFinalAnswer(Strip(r.final_text))
              THEN Strip(r.final_text) ELSE NoText]

NotParsed == [action |-> None, action_input |-> None, final_answer |-> NoText]

ParserIdle ==
    /\ parser_reply = [action |-> "absent", input |-> "absent",
                       final_marker |-> FALSE, final_text |-> <<>>]
    /\ parser_done = FALSE
    /\ parser_result = NotParsed

\* the call of _parse_react_output on the reply
ParseOutput ==
    /\ ~parser_done
    /\ parser_result' = ParseReply(parser_reply)
    /\ parser_done' = TRUE
    /\ UNCHANGED parser_reply
    /\ UNCHANGED <<agentVars, memoryVars, toolkitVars, callAgentVars,
                 serviceVars,
                 dedupeVars,
                 bm25Vars,
                 emotionVars,
                 extractVars,
                 accessVars,
                 longVars,
                 normVars,
                 releaseVars,
                 sessionVars,
                 partitionVars,
                 dialogueVars>>

(* ------------------------------------------------------------------ *)
(* MemoryManager.store_long_term                                        *)
(* ------------------------------------------------------------------ *)

\* store_long_term calls in one behaviour
MaxStores == 2
\* longest content argument
MaxContent == 3

\* content arguments: letters and white space
Contents == UNION {[1..n -> {"a", " "}] : n \in 0..MaxContent}

\* QueryRewriter.normalize_for_storage: blank content is returned as it is;
\* otherwise the LLM's text, stripped, or the stripped content when the LLM
\* raises or returns nothing. A rewritten text is the content with a
\* third-person subject put in front.
NormalizeOutcomes == {"rewritten", "nothing", "raises"}

NormalizeForStorage(content, llm) ==
    IF Strip(content) = <<>> THEN content
    ELSE IF llm = "rewritten" THEN <<"user">> \o Strip(content)
    ELSE Strip(content)

\* embed_func(text): the vector of a text, an empty vector, or an exception
EmbedOutcomes == {"vector", "empty", "raises"}

Embed(text) == [embedding_of |-> text]

\* (mutant) the vector is computed from the content itself
Mut_EmbeddedText(content, normalized) == content

\* vector = self.embed_func(normalized_content)
EmbeddedText(content, normalized) == normalized

\* the record handed to storage.vector_insert
LongTermRecord(content, normalized) ==
    [memory_type |-> "stored",
     vector |-> Embed(EmbeddedText(content, normalized)),
     content |-> content,
     metadata |-> [source |-> "agent", normalized_content |-> normalized]]

InsertOutcomes == {"inserted", "inserted_none", "raises"}

\* MemoryManager.store_long_term(content, memory_type, ...)
StoreLongTerm ==
    /\ store_calls < MaxStores
    /\ store_calls' = store_calls + 1
    /\ \E arg \in Contents, llm \in NormalizeOutcomes, e \in EmbedOutcomes,
          ins \in InsertOutcomes :
        LET content == Strip(arg)
            normalized == NormalizeForStorage(content, llm)
            record == LongTermRecord(content, normalized)
            reaches_insert == content # <<>> /\ e = "vector"
            inserted == reaches_insert /\ ins = "inserted"
        IN /\ long_term' = IF inserted THEN long_term \cup {record} ELSE long_term
           /\ stored' = [called |-> TRUE,
                         content |-> arg,
                         returned |-> IF inserted THEN "mem_id" ELSE None,
                         raised |-> content # <<>> /\ e = "raises",
                         inserted |-> inserted,
                         record |-> IF inserted THEN record ELSE None]
    /\ UNCHANGED <<mid_table, access_counter, promoted_away, promo_selected>>
    /\ UNCHANGED <<agentVars, toolkitVars, parserVars, callAgentVars,
                 serviceVars,
                 dedupeVars,
                 bm25Vars,
                 emotionVars,
                 extractVars,
                 accessVars,
                 longVars,
                 normVars,
                 releaseVars,
                 sessionVars,
                 partitionVars,
                 dialogueVars>>

(* ------------------------------------------------------------------ *)
(* CallAgentTool.execute                                                *)
(* ------------------------------------------------------------------ *)

\* longest list the tool references
MaxHistory == 2

RegisteredAgents == {"memory_agent", "character_agent"}
AgentNames == RegisteredAgents \cup {"nobody"}

Histories ==
    UNION {[1..n -> {Msg("user", "hello"), Msg("assistant", "answer")}] :
              n \in 0..MaxHistory}

NotSeen == [invoked |-> FALSE, content |-> "", metadata |-> Kwargs("none")]

CallAgentIdle ==
    /\ ca_args = [agent_name |-> "nobody", extra |-> "none"]
    /\ ca_messages_ref = <<>>
    /\ ca_done = FALSE
    /\ ca_seen = NotSeen
    /\ ca_result = ToolOk

\* execute(agent_name, input, **kwargs): an unknown agent fails at once;
\* otherwise the callee is invoked with the merged metadata, and its response
\* (or the exception it raised) becomes the ToolResult.
CallAgentExecute ==
    /\ ~ca_done
    /\ ca_done' = TRUE
    /\ IF ca_args.agent_name \notin RegisteredAgents
       THEN /\ ca_result' = ToolFail("Unknown agent", FALSE)
            /\ ca_seen' = NotSeen
       ELSE /\ ca_seen' = [invoked |-> TRUE, content |-> "hi",
                          metadata |-> BuildMetadata(Kwargs(ca_args.extra),
                                                     ca_messages_ref)]
            /\ \E callee \in {"ok", "fail", "raise"} :
                 ca_result' = CASE callee = "ok" -> ToolOk
                                [] callee = "fail" -> ToolFail("Agent execution failed", FALSE)
                                [] callee = "raise" -> ToolFail("exception text", FALSE)
    /\ UNCHANGED <<ca_args, ca_messages_ref>>
    /\ UNCHANGED <<agentVars, memoryVars, toolkitVars, parserVars,
                 serviceVars,
                 dedupeVars,
                 bm25Vars,
                 emotionVars,
                 extractVars,
                 accessVars,
                 longVars,
                 normVars,
                 releaseVars,
                 sessionVars,
                 partitionVars,
                 dialogueVars>>

(* ------------------------------------------------------------------ *)
(* ChatService: the sessions and their pipelines                        *)
(* ------------------------------------------------------------------ *)

\* service calls explored
MaxServiceCalls == 4
\* longest dialogue history of a pipeline that is told apart
MaxSessionHistory == 2

\* _get_session_key: "bot_id:user_id"
SessionKeys == {"bot:anna", "bot:ben"}

\* the keys of PERSONAS
PERSONAS == {"default", "girl", "mature"}

\* settings.default_persona
DefaultPersonaName == "girl"

\* the persona argument of a call: a name of PERSONAS, another name, or None
PersonaArgs == PERSONAS \cup {"unknown", None}

\* persona_name or default_persona, then PERSONAS.get(persona_name, EXAMPLE_PERSONA_GIRL)
PersonaFor(persona_name) ==
    LET name == IF persona_name = None THEN DefaultPersonaName ELSE persona_name
    IN  IF name \in PERSONAS THEN name ELSE "girl"

\* ChatPipeline.__init__: a pipeline with agents of its own and no history
NewPipeline(key, persona) ==
    [key |-> key, persona |-> persona, history |-> 0, closed |-> FALSE]

\* the test "key not in self._pipelines" never finds a key
Mut_KeyInPipelines(pipelines, key) == FALSE

\* key in self._pipelines
KeyInPipelines(pipelines, key) == pipelines[key] # 0

\* The history the System agent is left with after one run: the reply is
\* appended on a Final Answer and the trim may drop messages.
ChatHistories(history) == 0..Min(history + 1, MaxSessionHistory)

NoServiceCall ==
    [op |-> None, key |-> None, created |-> FALSE, pipeline |-> 0,
     history_before |-> 0, returned |-> None]

ServiceIdle ==
    /\ svc_objects = <<>>
    /\ svc_pipelines = [k \in SessionKeys |-> 0]
    /\ svc_calls = 0
    /\ svc_last = NoServiceCall

\* ChatService.chat: _get_or_create_pipeline, then pipeline.chat(message)
ServiceChat ==
    /\ svc_calls < MaxServiceCalls
    /\ \E key \in SessionKeys, persona_name \in PersonaArgs :
         LET found   == KeyInPipelines(svc_pipelines, key)
             objects == IF found THEN svc_objects
                        ELSE Append(svc_objects, NewPipeline(key, PersonaFor(persona_name)))
             p       == IF found THEN svc_pipelines[key] ELSE Len(objects)
         IN  \E history \in ChatHistories(objects[p].history) :
               /\ svc_objects' = [objects EXCEPT ![p].history = history]
               /\ svc_pipelines' = [svc_pipelines EXCEPT ![key] = p]
               /\ svc_last' = [op |-> "chat", key |-> key, created |-> ~found,
                               pipeline |-> p, history_before |-> objects[p].history,
                               returned |-> "dict"]
    /\ svc_calls' = svc_calls + 1
    /\ UNCHANGED <<agentVars, memoryVars, toolkitVars, parserVars, callAgentVars,
                 dedupeVars,
                 bm25Vars,
                 emotionVars,
                 extractVars,
                 accessVars,
                 longVars,
                 normVars,
                 releaseVars,
                 sessionVars,
                 partitionVars,
                 dialogueVars>>

\* ChatService.clear_history
ServiceClearHistory ==
    /\ svc_calls < MaxServiceCalls
    /\ \E key \in SessionKeys :
         LET p == svc_pipelines[key]
         IN  /\ svc_objects' = IF p # 0 THEN [svc_objects EXCEPT ![p].history = 0]
                               ELSE svc_objects
             /\ svc_last' = [op |-> "clear_history", key |-> key, created |-> FALSE,
                             pipeline |-> p,
                             history_before |-> IF p # 0 THEN svc_objects[p].history ELSE 0,
                             returned |-> (p # 0)]
    /\ svc_calls' = svc_calls + 1
    /\ UNCHANGED svc_pipelines
    /\ UNCHANGED <<agentVars, memoryVars, toolkitVars, parserVars, callAgentVars,
                 dedupeVars,
                 bm25Vars,
                 emotionVars,
                 extractVars,
                 accessVars,
                 longVars,
                 normVars,
                 releaseVars,
                 sessionVars,
                 partitionVars,
                 dialogueVars>>

\* ChatService.set_persona
ServiceSetPersona ==
    /\ svc_calls < MaxServiceCalls
    /\ \E key \in SessionKeys, persona_name \in PersonaArgs \ {None} :
         LET p  == svc_pipelines[key]
             ok == persona_name \in PERSONAS /\ p # 0
         IN  /\ svc_objects' = IF ok THEN [svc_objects EXCEPT ![p].persona = persona_name]
                               ELSE svc_objects
             /\ svc_last' = [op |-> "set_persona", key |-> key, created |-> FALSE,
                             pipeline |-> IF persona_name \in PERSONAS THEN p ELSE 0,
                             history_before |-> IF ok THEN svc_objects[p].history ELSE 0,
                             returned |-> ok]
    /\ svc_calls' = svc_calls + 1
    /\ UNCHANGED svc_pipelines
    /\ UNCHANGED <<agentVars, memoryVars, toolkitVars, parserVars, callAgentVars,
                 dedupeVars,
                 bm25Vars,
                 emotionVars,
                 extractVars,
                 accessVars,
                 longVars,
                 normVars,
                 releaseVars,
                 sessionVars,
                 partitionVars,
                 dialogueVars>>

\* ChatService.delete_session: close the pipeline, then del self._pipelines[key];
\* here every close returns (the exits of a close that raises are followed in
\* DeleteSessionRelease)
ServiceDeleteSession ==
    /\ svc_calls < MaxServiceCalls
    /\ \E key \in SessionKeys :
         LET p == svc_pipelines[key]
         IN  /\ svc_objects' = IF p # 0 THEN [svc_objects EXCEPT ![p].closed = TRUE]
                               ELSE svc_objects
             /\ svc_pipelines' = [svc_pipelines EXCEPT ![key] = 0]
             /\ svc_last' = [op |-> "delete_session", key |-> key, created |-> FALSE,
                             pipeline |-> p,
                             history_before |-> IF p # 0 THEN svc_objects[p].history ELSE 0,
                             returned |-> (p # 0)]
    /\ svc_calls' = svc_calls + 1
    /\ UNCHANGED <<agentVars, memoryVars, toolkitVars, parserVars, callAgentVars,
                 dedupeVars,
                 bm25Vars,
                 emotionVars,
                 extractVars,
                 accessVars,
                 longVars,
                 normVars,
                 releaseVars,
                 sessionVars,
                 partitionVars,
                 dialogueVars>>

ServiceNext ==
    ServiceChat \/ ServiceClearHistory \/ ServiceSetPersona \/ ServiceDeleteSession

(* ------------------------------------------------------------------ *)
(* MemoryManager._dedupe_long_term and Ranker._dedupe                   *)
(* ------------------------------------------------------------------ *)

\* longest list of items deduplicated
MaxItems == 3
\* RankerConfig.coarse_rank_limit (configurable), the cut of Ranker._dedupe
CoarseRankLimit == 2

\* A content is told apart by its first 100 characters (head) and what comes
\* after them (tail); a content shorter than 100 characters has no tail.
ItemContents ==
    {c \in [head : {"", "h1", "h2"}, tail : {"", "t1"}] : c.head = "" => c.tail = ""}

\* the values of the sort key (final_score or bm25_score), in tenths
Scores == {5, 7, 9}

ItemValues == [content : ItemContents, score : Scores]

\* a list of RankItem, the id being the place in the list
ItemList(n, f) ==
    [i \in 1..n |-> [id |-> i, content |-> f[i].content, score |-> f[i].score]]

\* content_key = item.content[:100] if item.content else ""
ContentKey(item) == item.content.head

\* the sort is ascending
Mut_InsertByScore(x, s) ==
    LET k == Cardinality({i \in 1..Len(s) : s[i].score < x.score})
    IN  SubSeq(s, 1, k) \o <<x>> \o SubSeq(s, k + 1, Len(s))

\* the place sorted(..., reverse=True) gives x among the later items s, which
\* are sorted already: before the items that do not score higher (stable)
InsertByScore(x, s) ==
    LET k == Cardinality({i \in 1..Len(s) : s[i].score > x.score})
    IN  SubSeq(s, 1, k) \o <<x>> \o SubSeq(s, k + 1, Len(s))

RECURSIVE SortedByScore(_)
\* sorted(items, key=..., reverse=True)
SortedByScore(items) ==
    IF items = <<>> THEN <<>>
    ELSE InsertByScore(Head(items), SortedByScore(Tail(items)))

RECURSIVE KeepUnseen(_, _)
\* the loop over the sorted items with the set seen
KeepUnseen(items, seen) ==
    IF items = <<>> THEN <<>>
    ELSE LET content_key == ContentKey(Head(items))
         IN  IF content_key # "" /\ content_key \notin seen
             THEN <<Head(items)>> \o KeepUnseen(Tail(items), seen \cup {content_key})
             ELSE KeepUnseen(Tail(items), seen)

\* MemoryManager._dedupe_long_term
DedupeLongTerm(items) == KeepUnseen(SortedByScore(items), {})

\* Ranker._dedupe: result[: self.config.coarse_rank_limit]
DedupeMidTerm(items) ==
    LET result == KeepUnseen(SortedByScore(items), {})
    IN  SubSeq(result, 1, Min(Len(result), CoarseRankLimit))

DedupeIdle ==
    /\ dd_items = <<>>
    /\ dd_call = None
    /\ dd_done = FALSE
    /\ dd_result = <<>>

\* one call of either function
Dedupe ==
    /\ ~dd_done
    /\ \E call \in {"long_term", "mid_term"} :
         /\ dd_call' = call
         /\ dd_result' = IF call = "long_term" THEN DedupeLongTerm(dd_items)
                         ELSE DedupeMidTerm(dd_items)
    /\ dd_done' = TRUE
    /\ UNCHANGED dd_items
    /\ UNCHANGED <<agentVars, memoryVars, toolkitVars, parserVars, callAgentVars,
                   serviceVars,
                 bm25Vars,
                 emotionVars,
                 extractVars,
                 accessVars,
                 longVars,
                 normVars,
                 releaseVars,
                 sessionVars,
                 partitionVars,
                 dialogueVars>>

(* ------------------------------------------------------------------ *)
(* BM25.fit and BM25.get_doc_score_map                                  *)
(* ------------------------------------------------------------------ *)

\* most documents of a fitted corpus
MaxDocs == 4
\* the corpus size up to which the word match replaces BM25
FewDocs == 3

\* A text is the list of pieces the segmenter cuts it into.
\* entries of STOPWORDS that are cut as pieces of their own
STOPWORDS == {"(", " "}

\* the summaries and the keywords of the documents
Summaries == {<<>>, <<"alpha", " ", "beta">>, <<"ALPHA", "(">>, <<"beta", " ", "beta">>}
Keywords == {<<>>, <<"gamma">>}

\* the queries
Queries ==
    {<<>>, <<"alpha">>, <<"gamma">>, <<"alpha", " ", "beta">>, <<"(", " ">>,
     <<"Alpha", " ", "alpha">>}

Documents == [summary : Summaries, keywords : Keywords]

\* str.lower on a piece
Lower(t) ==
    CASE t = "ALPHA" -> "alpha"
      [] t = "Alpha" -> "alpha"
      [] OTHER -> t

\* str.strip on a piece
StripPiece(t) == IF t = " " THEN "" ELSE t

RECURSIVE KeepTokens(_, _)
\* the loop of tokenize: strip, drop what is empty, seen or a stopword
KeepTokens(pieces, seen) ==
    IF pieces = <<>> THEN <<>>
    ELSE LET t == StripPiece(Head(pieces))
         IN  IF t # "" /\ t \notin seen /\ t \notin STOPWORDS
             THEN <<t>> \o KeepTokens(Tail(pieces), seen \cup {t})
             ELSE KeepTokens(Tail(pieces), seen)

\* tokenize(text)
Tokenize(text) ==
    IF text = <<>> THEN <<>>
    ELSE KeepTokens([i \in 1..Len(text) |-> Lower(text[i])], {})

\* f"{doc.get(text_field, '')} {doc.get('keywords', '')}"
DocText(doc) == doc.summary \o <<" ">> \o doc.keywords

\* BM25.fit: the corpus of the documents, the id of a document being its place
Fit(documents) == [i \in 1..Len(documents) |-> Tokenize(DocText(documents[i]))]

\* set(tokens)
TokenSet(tokens) == {tokens[i] : i \in 1..Len(tokens)}

\* the word match counts the tokens of the document instead of the query's
Mut_HitRatio(query_set, doc_set) ==
    [hits |-> Cardinality(query_set \cap doc_set), of |-> Cardinality(doc_set)]

\* hit_count / len(query_set), as the fraction hits/of
HitRatio(query_set, doc_set) ==
    [hits |-> Cardinality(query_set \cap doc_set), of |-> Cardinality(query_set)]

\* a score computed by BM25Okapi.get_scores
OkapiScore == [hits |-> "BM25Okapi", of |-> "BM25Okapi"]

\* BM25.get_doc_score_map; the empty map is <<>>
GetDocScoreMap(corpus, query) ==
    IF corpus = <<>> THEN <<>>
    ELSE LET query_tokens == Tokenize(query)
         IN  IF query_tokens = <<>> THEN <<>>
             ELSE IF Len(corpus) <= FewDocs
                  THEN [i \in 1..Len(corpus) |->
                           HitRatio(TokenSet(query_tokens), TokenSet(corpus[i]))]
                  ELSE [i \in 1..Len(corpus) |-> OkapiScore]

BM25Idle ==
    /\ bm_documents = <<>>
    /\ bm_corpus = <<>>
    /\ bm_query = <<>>
    /\ bm_done = FALSE
    /\ bm_scores = <<>>

\* get_doc_score_map(query) on the fitted index
BM25Query ==
    /\ ~bm_done
    /\ \E query \in Queries :
         /\ bm_query' = query
         /\ bm_scores' = GetDocScoreMap(bm_corpus, query)
    /\ bm_done' = TRUE
    /\ UNCHANGED <<bm_documents, bm_corpus>>
    /\ UNCHANGED <<agentVars, memoryVars, toolkitVars, parserVars, callAgentVars,
                   serviceVars, dedupeVars,
                 emotionVars,
                 extractVars,
                 accessVars,
                 longVars,
                 normVars,
                 releaseVars,
                 sessionVars,
                 partitionVars,
                 dialogueVars>>

(* ------------------------------------------------------------------ *)
(* normalize_emotion                                                    *)
(* ------------------------------------------------------------------ *)

EmotionKeys == {"mood", "affection", "energy", "trust"}

\* Numbers are written in thousandths: 337 is 0.337.
\* default_emotion()
DefaultEmotion ==
    [key \in EmotionKeys |->
        CASE key = "mood" -> 600
          [] key = "affection" -> 500
          [] key = "energy" -> 700
          [] key = "trust" -> 500]

\* the numbers tried as values
EmotionNumbers == {-1500, -337, 333, 1500}

\* a number as a value
Number(n) == [is |-> "number", n |-> n]

\* What a key of the argument can hold: nothing (the key is missing), None,
\* a text that is no number, a number, the float nan, or an int too large
\* for a float (10**400).
Missing == [is |-> "missing", n |-> 0]
EmotionValues ==
    {Number(n) : n \in EmotionNumbers}
        \cup {Missing} \cup {[is |-> t, n |-> 0] : t \in {None, "abc", "nan", "10**400"}}

\* float(value): the float, or the exception raised
ToFloat(value) ==
    CASE value.is \in {"number", "nan"} -> [raises |-> None, value |-> value]
      [] value.is = None -> [raises |-> "TypeError", value |-> value]
      [] value.is = "abc" -> [raises |-> "ValueError", value |-> value]
      [] value.is = "10**400" -> [raises |-> "OverflowError", value |-> value]
      [] OTHER -> [raises |-> "KeyError", value |-> value]

\* max(lo, min(hi, value)); min(hi, nan) is hi, since nan < hi is false
Clamp(lo, hi, value) ==
    IF value.is = "nan" THEN hi
    ELSE IF value.n > hi THEN hi
    ELSE IF value.n < lo THEN lo
    ELSE value.n

\* round(v, 2), for thousandths that are not an exact half
Round2(v) ==
    LET r == v % 10
    IN  IF r < 5 THEN v - r ELSE v - r + 10

\* the lower end of the range of a key
LowerEnd(key) == IF key \in {"mood", "affection"} THEN -1000 ELSE 0

\* the exceptions the try blocks of normalize_emotion catch
CaughtByNormalize == {"ValueError", "TypeError"}

\* normalize_emotion(emotion): the mapping returned, or the exception that
\* leaves the function
NormalizeEmotion(emotion) ==
    LET conv == [key \in EmotionKeys |-> ToFloat(emotion[key])]
        escaping == {key \in EmotionKeys :
                        /\ emotion[key] # Missing
                        /\ conv[key].raises \notin CaughtByNormalize \cup {None}}
    IN  IF escaping # {}
        THEN [raised |-> TRUE, value |-> <<>>]
        ELSE [raised |-> FALSE,
              value |-> [key \in EmotionKeys |->
                  IF emotion[key] # Missing /\ conv[key].raises = None
                  THEN Number(Round2(Clamp(LowerEnd(key), 1000, conv[key].value)))
                  ELSE Number(Round2(DefaultEmotion[key]))]]

NotNormalized == [raised |-> FALSE, value |-> <<>>]

EmotionIdle ==
    /\ em_input = [key \in EmotionKeys |-> Missing]
    /\ em_pc = "start"
    /\ em_first = NotNormalized
    /\ em_second = NotNormalized

\* normalize_emotion(m)
Normalize ==
    /\ em_pc = "start"
    /\ em_first' = NormalizeEmotion(em_input)
    /\ em_pc' = "once"
    /\ UNCHANGED <<em_input, em_second>>
    /\ UNCHANGED <<agentVars, memoryVars, toolkitVars, parserVars, callAgentVars,
                   serviceVars, dedupeVars, bm25Vars,
                 extractVars,
                 accessVars,
                 longVars,
                 normVars,
                 releaseVars,
                 sessionVars,
                 partitionVars,
                 dialogueVars>>

\* normalize_emotion(normalize_emotion(m))
NormalizeAgain ==
    /\ em_pc = "once"
    /\ ~em_first.raised
    /\ em_second' = NormalizeEmotion(em_first.value)
    /\ em_pc' = "twice"
    /\ UNCHANGED <<em_input, em_first>>
    /\ UNCHANGED <<agentVars, memoryVars, toolkitVars, parserVars, callAgentVars,
                   serviceVars, dedupeVars, bm25Vars,
                 extractVars,
                 accessVars,
                 longVars,
                 normVars,
                 releaseVars,
                 sessionVars,
                 partitionVars,
                 dialogueVars>>

EmotionNext == Normalize \/ NormalizeAgain

(* ------------------------------------------------------------------ *)
(* CharacterAgent._extract_emotion_from_trace                           *)
(* ------------------------------------------------------------------ *)

\* longest trace searched
MaxTrace == 3

\* an emotion mapping with every key
FullEmotion(mood) ==
    [key \in EmotionKeys |-> Number(IF key = "mood" THEN mood ELSE DefaultEmotion[key])]

\* emotion mappings met in the payload of a tool result: what analyze_emotion
\* returns (normalised, all four keys), and one without the key mood
PayloadEmotions ==
    {FullEmotion(900), FullEmotion(-300),
     [key \in EmotionKeys |-> IF key = "energy" THEN Number(200) ELSE Missing]}

\* words and keys besides the four emotion keys that a text may hold
OtherWords == {"success", "data", "valence"}

\* AnalyzeEmotion.execute: ToolResult.ok(normalize_emotion(emotion))
AnalyzeEmotionResult(emotion) ==
    [success |-> TRUE, data |-> "mapping", emotion |-> NormalizeEmotion(emotion).value,
     also |-> {}]

\* A ToolResult, as far as its text goes: a failure, a success without data,
\* with a string, or with a mapping (its emotion keys and its other keys);
\* among them the results of analyze_emotion.
ToolResults ==
    {[success |-> FALSE, data |-> "error", emotion |-> FullEmotion(600), also |-> {}],
     [success |-> TRUE, data |-> "none", emotion |-> FullEmotion(600), also |-> {}],
     [success |-> TRUE, data |-> "string", emotion |-> FullEmotion(600), also |-> {}]}
    \cup [success : {TRUE}, data : {"mapping"}, emotion : PayloadEmotions,
          also : SUBSET OtherWords]
    \cup {AnalyzeEmotionResult(emotion) : emotion \in PayloadEmotions}

\* ToolResult.__str__: "Error: ...", "Success", the string itself, or the
\* JSON of the data; a text is told apart by whether it holds a JSON object,
\* the emotion keys of that object, and the other words in it
ToolResultStr(result) ==
    IF ~result.success \/ result.data \in {"none", "string"}
    THEN [object |-> FALSE, emotion |-> result.emotion, words |-> {}]
    ELSE [object |-> TRUE, emotion |-> result.emotion, words |-> result.also]

\* a message of the trace: a reply of the model, a repair message, or
\* f"Observation: {result}"
TraceMessages ==
    {[role |-> "assistant", observation |-> FALSE, text |-> ToolResultStr(r)] :
        r \in {x \in ToolResults : x.data = "none"}}
    \cup {[role |-> "user", observation |-> FALSE, text |-> ToolResultStr(r)] :
        r \in {x \in ToolResults : x.data = "none"}}
    \cup {[role |-> "user", observation |-> TRUE, text |-> ToolResultStr(r)] :
        r \in ToolResults}

\* "success" in obs_content and "data" in obs_content
LooksLikeToolResult(text) == "success" \in text.words /\ "data" \in text.words

\* any(k in data for k in ["valence", "arousal", "mood"])
HasEmotionKey(text) == text.emotion["mood"] # Missing \/ "valence" \in text.words

\* the message makes _extract_emotion_from_trace return
Extractable(msg) ==
    /\ msg.role = "user"
    /\ msg.observation
    /\ LooksLikeToolResult(msg.text)
    /\ msg.text.object
    /\ HasEmotionKey(msg.text)

RECURSIVE ExtractEmotionFromTrace(_)
\* CharacterAgent._extract_emotion_from_trace
ExtractEmotionFromTrace(trace) ==
    IF trace = <<>> THEN [key \in EmotionKeys |-> Number(DefaultEmotion[key])]
    ELSE IF Extractable(Head(trace)) THEN NormalizeEmotion(Head(trace).text.emotion).value
    ELSE ExtractEmotionFromTrace(Tail(trace))

ExtractIdle ==
    /\ ex_trace = <<>>
    /\ ex_done = FALSE
    /\ ex_emotion_state = <<>>

\* CharacterAgent.run after the loop: emotion_state of the result
ExtractEmotion ==
    /\ ~ex_done
    /\ ex_emotion_state' = ExtractEmotionFromTrace(ex_trace)
    /\ ex_done' = TRUE
    /\ UNCHANGED ex_trace
    /\ UNCHANGED <<agentVars, memoryVars, toolkitVars, parserVars, callAgentVars,
                   serviceVars, dedupeVars, bm25Vars, emotionVars,
                 accessVars,
                 longVars,
                 normVars,
                 releaseVars,
                 sessionVars,
                 partitionVars,
                 dialogueVars>>

(* ------------------------------------------------------------------ *)
(* MemoryManager.search_mid_term: access counting                       *)
(* ------------------------------------------------------------------ *)

\* search_mid_term calls of one run
MaxSearches == 3

\* what the queries of search_mid_term are: empty (or blank) or not
SearchQueries == {"", "q"}

\* what storage.update does for one id
UpdateOutcomes == {"updated", "raises"}

AccessIdle ==
    /\ ac_table = {}
    /\ ac_stored = [id \in MidIds |-> 0]
    /\ ac_counter = [id \in MidIds |-> 0]
    /\ ac_searches = 0
    /\ ac_last = [returned |-> {}, failed |-> {}]

\* save_mid_term: the new row gets the next id and access_count 0
SaveMidTerm ==
    /\ Cardinality(ac_table) < MaxRows
    /\ LET id == Cardinality(ac_table) + 1
       IN /\ ac_table' = ac_table \cup {id}
          /\ ac_stored' = [ac_stored EXCEPT ![id] = 0]
    /\ UNCHANGED <<ac_counter, ac_searches, ac_last>>
    /\ UNCHANGED <<agentVars, memoryVars, toolkitVars, parserVars, callAgentVars,
                   serviceVars, dedupeVars, bm25Vars, emotionVars, extractVars,
                 longVars,
                 normVars,
                 releaseVars,
                 sessionVars,
                 partitionVars,
                 dialogueVars>>

\* (mutant) the in-process counter is left alone when the update raised
Mut_CounterAfter(count, returned, update) ==
    IF returned /\ update = "updated" THEN count + 1 ELSE count

\* _update_access_counts, first loop: the in-process counter of a returned id
CounterAfter(count, returned, update) ==
    IF returned THEN count + 1 ELSE count

\* _update_access_counts, second loop: access_count = access_count + 1 for a
\* returned id, unless storage.update raised (the exception is only logged)
StoredAfter(count, returned, update) ==
    IF returned /\ update = "updated" THEN count + 1 ELSE count

\* search_mid_term: an empty query or an empty recall returns nothing; else
\* the ranker keeps some of the recalled rows, and the access counts of the
\* rows it kept are updated
SearchMidTerm ==
    /\ ac_searches < MaxSearches
    /\ \E query \in SearchQueries, ranked \in SUBSET ac_table,
          update \in [MidIds -> UpdateOutcomes] :
        LET db_ids == IF query = "" THEN {} ELSE ranked
        IN /\ ac_counter' = [id \in MidIds |->
                                CounterAfter(ac_counter[id], id \in db_ids, update[id])]
           /\ ac_stored' = [id \in MidIds |->
                                StoredAfter(ac_stored[id], id \in db_ids, update[id])]
           /\ ac_last' = [returned |-> db_ids,
                          failed |-> {id \in db_ids : update[id] = "raises"}]
    /\ ac_searches' = ac_searches + 1
    /\ UNCHANGED ac_table
    /\ UNCHANGED <<agentVars, memoryVars, toolkitVars, parserVars, callAgentVars,
                   serviceVars, dedupeVars, bm25Vars, emotionVars, extractVars,
                 longVars,
                 normVars,
                 releaseVars,
                 sessionVars,
                 partitionVars,
                 dialogueVars>>

AccessNext == SaveMidTerm \/ SearchMidTerm

(* ------------------------------------------------------------------ *)
(* MemoryManager.search_long_term                                       *)
(* ------------------------------------------------------------------ *)

\* vectors the collection holds
MaxVectors == 2
\* the largest limit of a search
MaxLimit == 2

\* the user_id of the manager, and another user's
ManagerUserId == "u1"
UserIds == {"u1", "u2"}

MemoryTypes == {"fact", "event"}
Importances == {1, 10}
VectorScores == {1, 2}

\* the content of a vector is one word here, so content[:100] is the content
VectorContents == {"h1", "h2"}

\* one result of storage.vector_search, without its id
VectorValues ==
    [user_id : UserIds, memory_type : MemoryTypes, content : VectorContents,
     importance : Importances, score : VectorScores]

\* the results of storage.vector_search, the id being the place in the list
VectorList(n, f) ==
    [i \in 1..n |-> [id |-> i, user_id |-> f[i].user_id,
                     memory_type |-> f[i].memory_type, content |-> f[i].content,
                     importance |-> f[i].importance, score |-> f[i].score]]

\* a vector search returns the most similar vector first
BestMatchFirst(f) ==
    \A i, j \in DOMAIN f : i < j => f[i].score >= f[j].score

\* scores are counted in 1/3600, which makes every weighted factor a whole number
ScoreUnit == 3600

\* the arguments of search_long_term; min_score is 0.1 (the default) or 0.5
LongQueries == {"", "h1"}
Limits == 0..MaxLimit
MinScores == {360, 1800}
MinImportances == {1, 5}
\* the memory_type asked for: every type, or one of them
AskedTypes == {"all", "fact"}
LongCalls ==
    [query : LongQueries, memory_type : AskedTypes, limit : Limits,
     min_score : MinScores, min_importance : MinImportances]

\* what embedding the query and the vector search do
RecallOutcomes == {"results", "embed_empty", "search_raises"}

NoLongCall ==
    [query |-> "", memory_type |-> "all", limit |-> 0, min_score |-> 360,
     min_importance |-> 1]

LongIdle ==
    /\ lt_store = <<>>
    /\ lt_call = NoLongCall
    /\ lt_done = FALSE
    /\ lt_kept = <<>>
    /\ lt_results = <<>>

\* _vector_recall keeps a result: the user_id is the manager's and the
\* memory_type is the asked one, when one is asked
RecallKeeps(r, memory_type) ==
    /\ r.user_id = ManagerUserId
    /\ (memory_type = "all" \/ r.memory_type = memory_type)

RECURSIVE RecallLoop(_, _, _, _)
\* the loop of _vector_recall: the test of top_k follows the append
RecallLoop(results, filtered, top_k, memory_type) ==
    IF results = <<>> THEN filtered
    ELSE IF ~RecallKeeps(Head(results), memory_type)
         THEN RecallLoop(Tail(results), filtered, top_k, memory_type)
         ELSE LET more == Append(filtered, Head(results))
              IN  IF Len(more) >= top_k THEN more
                  ELSE RecallLoop(Tail(results), more, top_k, memory_type)

\* _vector_recall: the search is asked for top_k * 3 results
VectorRecall(store, top_k, memory_type) ==
    RecallLoop(SubSeq(store, 1, Min(Len(store), top_k * 3)), <<>>, top_k, memory_type)

\* max(vector_score, default=1.0) or 1.0
MaxVectorScore(items) ==
    LET top == CHOOSE v \in {items[i].score : i \in 1..Len(items)} :
                   \A i \in 1..Len(items) : items[i].score <= v
    IN  IF top = 0 THEN 1 ELSE top

\* _context_match: the share of the query's terms found in the content
ContextMatch(query, r) == IF query # "" /\ query = r.content THEN 1 ELSE 0

\* _time_decay of a record without created_at, in tenths
TimeDecay == 5

\* rank_long_term's final_score: vector 0.5, importance 0.25, context 0.15,
\* time 0.1
FinalScore(query, r, max_vector_score) ==
    (r.score * (ScoreUnit \div 2)) \div max_vector_score
    + (r.importance - 1) * (ScoreUnit \div 36)
    + ContextMatch(query, r) * ((ScoreUnit * 15) \div 100)
    + TimeDecay * (ScoreUnit \div 100)

\* _to_long_term_rank_items and the scoring loop of rank_long_term
LongTermRankItem(query, r, max_vector_score) ==
    [id |-> r.id, content |-> [head |-> r.content, tail |-> ""],
     score |-> FinalScore(query, r, max_vector_score),
     importance |-> r.importance, memory_type |-> r.memory_type]

\* Ranker.rank_long_term
RankLongTerm(query, raw_results, limit) ==
    IF raw_results = <<>> THEN <<>>
    ELSE LET items == [i \in 1..Len(raw_results) |->
                          LongTermRankItem(query, raw_results[i],
                                           MaxVectorScore(raw_results))]
             sorted == SortedByScore(items)
         IN  SubSeq(sorted, 1, Min(Len(sorted), limit))

\* (mutant) the filter of the results forgets min_importance
Mut_PassesFilter(item, min_score, min_importance) ==
    ~(item.score < min_score)

\* search_long_term, step 6: not (final_score < min_score or importance < min_importance)
PassesFilter(item, min_score, min_importance) ==
    ~(item.score < min_score \/ item.importance < min_importance)

RECURSIVE FilterLoop(_, _, _, _, _)
\* search_long_term, step 6: the test of limit follows the append
FilterLoop(ranked, results, min_score, min_importance, limit) ==
    IF ranked = <<>> THEN results
    ELSE IF ~PassesFilter(Head(ranked), min_score, min_importance)
         THEN FilterLoop(Tail(ranked), results, min_score, min_importance, limit)
         ELSE LET more == Append(results, Head(ranked))
              IN  IF Len(more) >= limit THEN more
                  ELSE FilterLoop(Tail(ranked), more, min_score, min_importance, limit)

\* round(final_score, 3), in thousandths
Round3(score) == (score * 1000 + ScoreUnit \div 2) \div ScoreUnit

\* the record search_long_term returns for an item
SearchRecord(item) ==
    [id |-> item.id, content |-> item.content.head, memory_type |-> item.memory_type,
     importance |-> item.importance, score |-> Round3(item.score)]

\* the items search_long_term keeps
LongTermKept(store, call, recall) ==
    IF call.query = "" \/ recall # "results" THEN <<>>
    ELSE LET raw_results == VectorRecall(store, call.limit * 3, call.memory_type)
         IN  IF raw_results = <<>> THEN <<>>
             ELSE FilterLoop(DedupeLongTerm(RankLongTerm(call.query, raw_results,
                                                         call.limit * 2)),
                             <<>>, call.min_score, call.min_importance, call.limit)

\* MemoryManager.search_long_term
SearchLongTerm ==
    /\ ~lt_done
    /\ \E call \in LongCalls, recall \in RecallOutcomes :
        LET kept == LongTermKept(lt_store, call, recall)
        IN /\ lt_call' = call
           /\ lt_kept' = kept
           /\ lt_results' = [i \in 1..Len(kept) |-> SearchRecord(kept[i])]
    /\ lt_done' = TRUE
    /\ UNCHANGED lt_store
    /\ UNCHANGED <<agentVars, memoryVars, toolkitVars, parserVars, callAgentVars,
                   serviceVars, dedupeVars, bm25Vars, emotionVars, extractVars,
                   accessVars,
                 normVars,
                 releaseVars,
                 sessionVars,
                 partitionVars,
                 dialogueVars>>

(* ------------------------------------------------------------------ *)
(* Ranker._calc_bm25_scores                                             *)
(* ------------------------------------------------------------------ *)

\* items in a batch of the ranker
MaxBatchItems == 4

\* raw scores are counted in tenths; the word match of at most FewDocs
\* documents gives a share of the query's tokens
WordMatchRaw == {0, 5, 10}
\* BM25Okapi.get_scores gives any number, a negative one where a token is in
\* more than half of the documents
OkapiRaw == {-20, -10, 0, 10, 20}

\* the scores get_doc_score_map gives for n documents
RawScores(n) == IF n <= FewDocs THEN WordMatchRaw ELSE OkapiRaw

\* a score map: empty for a query without tokens, else a score per item
ScoreMap(empty, scores) == [empty |-> empty, scores |-> scores]

NormIdle ==
    /\ nb_batch = ScoreMap(TRUE, <<>>)
    /\ nb_done = FALSE
    /\ nb_scores = <<>>

\* max(scores.values(), default=1.0) or 1.0
MaxScore(batch) ==
    IF batch.empty THEN 10
    ELSE LET top == CHOOSE v \in {batch.scores[i] : i \in 1..Len(batch.scores)} :
                        \A i \in 1..Len(batch.scores) : batch.scores[i] <= v
         IN  IF top = 0 THEN 10 ELSE top

\* scores.get(i, 0.0)
ScoreGet(batch, i) == IF batch.empty THEN 0 ELSE batch.scores[i]

\* item.bm25_score = scores.get(i, 0.0) / max_score, kept as a fraction
CalcBM25Scores(batch, n) ==
    [i \in 1..n |-> [num |-> ScoreGet(batch, i), den |-> MaxScore(batch)]]

\* Ranker._calc_bm25_scores for the batch
NormalizeBatch ==
    /\ ~nb_done
    /\ nb_scores' = CalcBM25Scores(nb_batch, Len(nb_batch.scores))
    /\ nb_done' = TRUE
    /\ UNCHANGED nb_batch
    /\ UNCHANGED <<agentVars, memoryVars, toolkitVars, parserVars, callAgentVars,
                   serviceVars, dedupeVars, bm25Vars, emotionVars, extractVars,
                   accessVars, longVars,
                 releaseVars,
                 sessionVars,
                 partitionVars,
                 dialogueVars>>

(* ------------------------------------------------------------------ *)
(* ChatService: releasing the pipelines                                 *)
(* ------------------------------------------------------------------ *)

\* service calls explored
MaxReleaseCalls == 4

\* the agents of a pipeline, in the order ChatPipeline.close closes them
PipelineAgents == {"system", "memory", "character"}

\* what the close of each agent does
CloseOutcomes == [PipelineAgents -> {"closes", "raises"}]

\* ChatPipeline.close: three calls in a row, none in a try; `closed` are the
\* agents closed before
PipelineClose(closed, o) ==
    IF o["system"] = "raises" THEN [closed |-> closed, raised |-> TRUE]
    ELSE IF o["memory"] = "raises"
    THEN [closed |-> closed \cup {"system"}, raised |-> TRUE]
    ELSE IF o["character"] = "raises"
    THEN [closed |-> closed \cup {"system", "memory"}, raised |-> TRUE]
    ELSE [closed |-> PipelineAgents, raised |-> FALSE]

NoReleaseCall == [op |-> "none", key |-> "", raised |-> FALSE]

ReleaseIdle ==
    /\ rl_pipelines = {}
    /\ rl_closed = [key \in SessionKeys |-> {}]
    /\ rl_calls = 0
    /\ rl_last = NoReleaseCall

\* _get_or_create_pipeline for a key without a pipeline
CreatePipeline ==
    /\ rl_calls < MaxReleaseCalls
    /\ \E key \in SessionKeys \ rl_pipelines :
         /\ rl_pipelines' = rl_pipelines \cup {key}
         /\ rl_closed' = [rl_closed EXCEPT ![key] = {}]
         /\ rl_last' = [op |-> "chat", key |-> key, raised |-> FALSE]
    /\ rl_calls' = rl_calls + 1
    /\ UNCHANGED <<agentVars, memoryVars, toolkitVars, parserVars, callAgentVars,
                   serviceVars, dedupeVars, bm25Vars, emotionVars, extractVars,
                   accessVars, longVars, normVars,
                 sessionVars,
                 partitionVars,
                 dialogueVars>>

\* ChatService.delete_session with the exit paths of close: the del follows
\* the close and is not reached when the close raises
DeleteSessionRelease ==
    /\ rl_calls < MaxReleaseCalls
    /\ \E key \in SessionKeys, o \in CloseOutcomes :
         IF key \notin rl_pipelines
         THEN /\ rl_last' = [op |-> "delete_session", key |-> key, raised |-> FALSE]
              /\ UNCHANGED <<rl_pipelines, rl_closed>>
         ELSE LET r == PipelineClose(rl_closed[key], o)
              IN  /\ rl_closed' = [rl_closed EXCEPT ![key] = r.closed]
                  /\ rl_pipelines' = IF r.raised THEN rl_pipelines
                                     ELSE rl_pipelines \ {key}
                  /\ rl_last' = [op |-> "delete_session", key |-> key,
                                 raised |-> r.raised]
    /\ rl_calls' = rl_calls + 1
    /\ UNCHANGED <<agentVars, memoryVars, toolkitVars, parserVars, callAgentVars,
                   serviceVars, dedupeVars, bm25Vars, emotionVars, extractVars,
                   accessVars, longVars, normVars,
                 sessionVars,
                 partitionVars,
                 dialogueVars>>

\* ChatService.shutdown: each pipeline's close in a try of its own, then
\* self._pipelines.clear()
Shutdown ==
    /\ rl_calls < MaxReleaseCalls
    /\ \E o \in [SessionKeys -> CloseOutcomes] :
         rl_closed' = [key \in SessionKeys |->
                          IF key \in rl_pipelines
                          THEN PipelineClose(rl_closed[key], o[key]).closed
                          ELSE rl_closed[key]]
    /\ rl_pipelines' = {}
    /\ rl_last' = [op |-> "shutdown", key |-> "", raised |-> FALSE]
    /\ rl_calls' = rl_calls + 1
    /\ UNCHANGED <<agentVars, memoryVars, toolkitVars, parserVars, callAgentVars,
                   serviceVars, dedupeVars, bm25Vars, emotionVars, extractVars,
                   accessVars, longVars, normVars,
                 sessionVars,
                 partitionVars,
                 dialogueVars>>

ReleaseNext == CreatePipeline \/ DeleteSessionRelease \/ Shutdown

(* ------------------------------------------------------------------ *)
(* ChatService._get_session_key                                         *)
(* ------------------------------------------------------------------ *)

\* chat calls explored
MaxSessionChats == 2
\* longest bot_id or user_id
MaxIdLen == 2

\* the characters of an id: a letter and the separator of the session key
IdChars == {"a", ":"}

\* bot_id and user_id are strings the API takes as they come
SessionIds == UNION {[1..n -> IdChars] : n \in 1..MaxIdLen}

\* f"{bot_id}:{user_id}"
GetSessionKey(bot_id, user_id) == bot_id \o <<":">> \o user_id

SessionIdle ==
    /\ sk_pipelines = {}
    /\ sk_objects = <<>>
    /\ sk_calls = 0
    /\ sk_used = {}

\* ChatService.chat(bot_id, user_id, message): the pipeline of the key is made
\* if the key has none, then it runs the message on its own history
SessionChat ==
    /\ sk_calls < MaxSessionChats
    /\ \E bot_id \in SessionIds, user_id \in SessionIds :
         LET key     == GetSessionKey(bot_id, user_id)
             found   == \E e \in sk_pipelines : e.key = key
             objects == IF found THEN sk_objects
                        ELSE Append(sk_objects,
                                    [bot_id |-> bot_id, user_id |-> user_id, history |-> 0])
             p       == IF found THEN (CHOOSE e \in sk_pipelines : e.key = key).pipeline
                        ELSE Len(objects)
         IN  /\ sk_pipelines' = IF found THEN sk_pipelines
                                ELSE sk_pipelines \cup {[key |-> key, pipeline |-> p]}
             /\ sk_objects' = [objects EXCEPT ![p].history = @ + 1]
             /\ sk_used' = sk_used \cup {[bot_id |-> bot_id, user_id |-> user_id,
                                          pipeline |-> p,
                                          history_seen |-> objects[p].history]}
    /\ sk_calls' = sk_calls + 1
    /\ UNCHANGED <<agentVars, memoryVars, toolkitVars, parserVars, callAgentVars,
                   serviceVars, dedupeVars, bm25Vars, emotionVars, extractVars,
                   accessVars, longVars, normVars, releaseVars,
                 partitionVars,
                 dialogueVars>>

(* ------------------------------------------------------------------ *)
(* get_milvus_partition: the partition of a bot                         *)
(* ------------------------------------------------------------------ *)

\* store_long_term calls explored
MaxPartitionStores == 2
\* longest bot_id
MaxBotIdLen == 2

\* the characters of a bot_id: a letter and two that are not alphanumeric
BotIdChars == {"a", "-", "_"}

BotIds == UNION {[1..n -> BotIdChars] : n \in 1..MaxBotIdLen}

\* c.isalnum()
IsAlnum(c) == c = "a"

\* "bot_" + "".join(c if c.isalnum() else "_" for c in bot_id)
GetMilvusPartition(bot_id) ==
    <<"b", "o", "t", "_">> \o
    [i \in 1..Len(bot_id) |-> IF IsAlnum(bot_id[i]) THEN bot_id[i] ELSE "_"]

\* the one user all the managers are made for
PartitionUser == "u1"

NoPartitionSearch == [done |-> FALSE, bot_id |-> <<>>, results |-> {}]

PartitionIdle ==
    /\ pt_store = {}
    /\ pt_stores = 0
    /\ pt_search = NoPartitionSearch

\* store_long_term of the manager of bot_id: vector_insert into the
\* manager's partition, the metadata naming bot_id and user_id
PartitionStore ==
    /\ pt_stores < MaxPartitionStores
    /\ ~pt_search.done
    /\ \E bot_id \in BotIds :
         pt_store' = pt_store \cup {[partition |-> GetMilvusPartition(bot_id),
                                     bot_id |-> bot_id, user_id |-> PartitionUser]}
    /\ pt_stores' = pt_stores + 1
    /\ UNCHANGED pt_search
    /\ UNCHANGED <<agentVars, memoryVars, toolkitVars, parserVars, callAgentVars,
                   serviceVars, dedupeVars, bm25Vars, emotionVars, extractVars,
                   accessVars, longVars, normVars, releaseVars, sessionVars,
                 dialogueVars>>

\* _vector_recall of the manager of bot_id: the vectors of the manager's
\* partition whose metadata user_id is the manager's
PartitionRecall(store, bot_id, user_id) ==
    {r \in store : r.partition = GetMilvusPartition(bot_id) /\ r.user_id = user_id}

\* search_long_term of the manager of bot_id (memory_type "all")
PartitionSearch ==
    /\ ~pt_search.done
    /\ \E bot_id \in BotIds :
         pt_search' = [done |-> TRUE, bot_id |-> bot_id,
                       results |-> PartitionRecall(pt_store, bot_id, PartitionUser)]
    /\ UNCHANGED <<pt_store, pt_stores>>
    /\ UNCHANGED <<agentVars, memoryVars, toolkitVars, parserVars, callAgentVars,
                   serviceVars, dedupeVars, bm25Vars, emotionVars, extractVars,
                   accessVars, longVars, normVars, releaseVars, sessionVars,
                 dialogueVars>>

PartitionNext == PartitionStore \/ PartitionSearch

(* ------------------------------------------------------------------ *)
(* The dialogue of the System agent over many turns                     *)
(* ------------------------------------------------------------------ *)

\* System.run calls explored
MaxDialogueTurns == 6

\* the answers a turn may end with
DialogueAnswers == {"answer", "other answer"}

DialogueIdle ==
    /\ dg_messages = <<>>
    /\ dg_rows = <<>>
    /\ dg_turns = 0
    /\ dg_last = "none"

\* a turn that ends with an accepted Final Answer: run and _init_loop leave
\* _messages alone, _on_final_answer appends the reply and trims with the
\* summariser behaving as s
DialogueTurnAnswered ==
    /\ dg_turns < MaxDialogueTurns
    /\ \E answer \in DialogueAnswers, s \in SummariserOutcomes :
         LET appended == Append(dg_messages, StampedMsg("assistant", answer, dg_turns))
             t == SystemTrim(appended, dg_rows, s)
         IN  /\ dg_messages' = t.list
             /\ dg_rows' = t.rows
    /\ dg_turns' = dg_turns + 1
    /\ dg_last' = "answered"
    /\ UNCHANGED <<agentVars, memoryVars, toolkitVars, parserVars, callAgentVars,
                   serviceVars, dedupeVars, bm25Vars, emotionVars, extractVars,
                   accessVars, longVars, normVars, releaseVars, sessionVars,
                   partitionVars>>

\* a turn that exhausts its budget or whose LLM call raises: _on_final_answer
\* is not reached
DialogueTurnFailed ==
    /\ dg_turns < MaxDialogueTurns
    /\ dg_turns' = dg_turns + 1
    /\ dg_last' = "failed"
    /\ UNCHANGED <<dg_messages, dg_rows>>
    /\ UNCHANGED <<agentVars, memoryVars, toolkitVars, parserVars, callAgentVars,
                   serviceVars, dedupeVars, bm25Vars, emotionVars, extractVars,
                   accessVars, longVars, normVars, releaseVars, sessionVars,
                   partitionVars>>

DialogueNext == DialogueTurnAnswered \/ DialogueTurnFailed

(* ------------------------------------------------------------------ *)
(* Specifications                                                       *)
(* ------------------------------------------------------------------ *)

AgentIdle ==
    /\ kind = "plain"
    /\ PlainAgentInit
    /\ toolkit_size = 0
    /\ loop_messages = <<>>
    /\ pc = "idle"
    /\ iteration = 0
    /\ has_called_tool = FALSE
    /\ user_input = ""
    /\ outcome = NoOutcome
    /\ dispatch = NoDispatch
    /\ tool_runs = <<>>
    /\ final_steps = <<>>
    /\ mid_term = <<>>
    /\ trim = NoTrim
    /\ now = 0
    /\ turns = 0
    /\ adds = 0
    /\ summarizer_calls = 0
    /\ final_turns = 0
    /\ llm_calls = 0
    /\ llm_failed = FALSE
    /\ response = NoResponse

\* an agent driven through run, add_message and clear_history
Init == AgentInit /\ MemoryIdle /\ ToolKitIdle /\ DialogueIdle /\ PartitionIdle /\ SessionIdle /\ ReleaseIdle /\ NormIdle /\ LongIdle /\ AccessIdle /\ ExtractIdle /\ EmotionIdle /\ BM25Idle /\ DedupeIdle /\ ServiceIdle /\ ParserIdle /\ CallAgentIdle

Next ==
    \/ Run
    \/ ReactIteration
    \/ LLMCallRaises
    \/ AddMessage
    \/ ClearHistory

Spec == Init /\ [][Next]_vars

\* a sub-agent (Memory or Character) driven through invoke
InitInvoke ==
    /\ kind \in SubAgents
    /\ heap = << <<>> >>
    /\ messages_ref_obj = 0
    /\ messages_obj = 1
    /\ toolkit_size = 2
    /\ loop_messages = <<>>
    /\ pc = "idle"
    /\ iteration = 0
    /\ has_called_tool = FALSE
    /\ user_input = ""
    /\ outcome = NoOutcome
    /\ dispatch = NoDispatch
    /\ tool_runs = <<>>
    /\ final_steps = <<>>
    /\ mid_term = <<>>
    /\ trim = NoTrim
    /\ now = 0
    /\ turns = 0
    /\ adds = 0
    /\ summarizer_calls = 0
    /\ final_turns = 0
    /\ llm_calls = 0
    /\ llm_failed = FALSE
    /\ response = NoResponse
    /\ MemoryIdle
    /\ ToolKitIdle /\ DialogueIdle /\ PartitionIdle /\ SessionIdle /\ ReleaseIdle /\ NormIdle /\ LongIdle /\ AccessIdle /\ ExtractIdle /\ EmotionIdle /\ BM25Idle /\ DedupeIdle /\ ServiceIdle
    /\ ParserIdle
    /\ CallAgentIdle

NextInvoke ==
    \/ Invoke
    \/ ReactIteration
    \/ LLMCallRaises

SpecInvoke == InitInvoke /\ [][NextInvoke]_vars

\* the parser applied to one reply text
InitParser ==
    /\ AgentIdle /\ MemoryIdle /\ ToolKitIdle /\ DialogueIdle /\ PartitionIdle /\ SessionIdle /\ ReleaseIdle /\ NormIdle /\ LongIdle /\ AccessIdle /\ ExtractIdle /\ EmotionIdle /\ BM25Idle /\ DedupeIdle /\ ServiceIdle /\ CallAgentIdle
    /\ parser_reply \in ReplyTexts
    /\ parser_done = FALSE
    /\ parser_result = NotParsed

SpecParser == InitParser /\ [][ParseOutput]_vars

\* one call of the System agent's call_agent tool
InitCallAgent ==
    /\ AgentIdle /\ MemoryIdle /\ ToolKitIdle /\ DialogueIdle /\ PartitionIdle /\ SessionIdle /\ ReleaseIdle /\ NormIdle /\ LongIdle /\ AccessIdle /\ ExtractIdle /\ EmotionIdle /\ BM25Idle /\ DedupeIdle /\ ServiceIdle /\ ParserIdle
    /\ ca_args \in [agent_name : AgentNames, extra : ExtraArgs]
    /\ ca_messages_ref \in Histories
    /\ ca_done = FALSE
    /\ ca_seen = NotSeen
    /\ ca_result = ToolOk

SpecCallAgent == InitCallAgent /\ [][CallAgentExecute]_vars

\* a memory manager storing long-term memories
InitStore ==
    AgentIdle /\ MemoryIdle /\ ToolKitIdle /\ DialogueIdle /\ PartitionIdle /\ SessionIdle /\ ReleaseIdle /\ NormIdle /\ LongIdle /\ AccessIdle /\ ExtractIdle /\ EmotionIdle /\ BM25Idle /\ DedupeIdle /\ ServiceIdle /\ ParserIdle /\ CallAgentIdle

SpecStore == InitStore /\ [][StoreLongTerm]_vars

\* a memory manager over a mid-term table
InitMemory == AgentIdle /\ MemoryInit /\ ToolKitIdle /\ DialogueIdle /\ PartitionIdle /\ SessionIdle /\ ReleaseIdle /\ NormIdle /\ LongIdle /\ AccessIdle /\ ExtractIdle /\ EmotionIdle /\ BM25Idle /\ DedupeIdle /\ ServiceIdle /\ ParserIdle /\ CallAgentIdle

SpecMemory == InitMemory /\ [][MemoryNext]_vars

\* The same with searches that keep coming as long as one is possible; when
\* close (the one caller of promote_high_frequency) happens is up to the
\* owner of the manager, so nothing forces it.
SpecMemoryLive == InitMemory /\ [][MemoryNext]_vars /\ WF_vars(UpdateAccessCounts)

\* one ToolKit.execute call with its worker threads
InitToolKit == AgentIdle /\ MemoryIdle /\ ToolKitIdle /\ DialogueIdle /\ PartitionIdle /\ SessionIdle /\ ReleaseIdle /\ NormIdle /\ LongIdle /\ AccessIdle /\ ExtractIdle /\ EmotionIdle /\ BM25Idle /\ DedupeIdle /\ ServiceIdle /\ ParserIdle /\ CallAgentIdle

SpecToolKit == InitToolKit /\ [][ToolKitNext]_vars

\* The chat service alone: calls on the sessions in any order.
InitService == AgentIdle /\ MemoryIdle /\ ToolKitIdle /\ DialogueIdle /\ PartitionIdle /\ SessionIdle /\ ReleaseIdle /\ NormIdle /\ LongIdle /\ AccessIdle /\ ExtractIdle /\ EmotionIdle /\ BM25Idle /\ DedupeIdle /\ ServiceIdle /\ ParserIdle /\ CallAgentIdle

SpecService == InitService /\ [][ServiceNext]_vars

\* One deduplication of any list of items.
InitDedupe ==
    /\ AgentIdle /\ MemoryIdle /\ ToolKitIdle /\ DialogueIdle /\ PartitionIdle /\ SessionIdle /\ ReleaseIdle /\ NormIdle /\ LongIdle /\ AccessIdle /\ ExtractIdle /\ EmotionIdle /\ BM25Idle /\ ServiceIdle /\ ParserIdle /\ CallAgentIdle
    /\ \E n \in 0..MaxItems : \E f \in [1..n -> ItemValues] : dd_items = ItemList(n, f)
    /\ dd_call = None
    /\ dd_done = FALSE
    /\ dd_result = <<>>

SpecDedupe == InitDedupe /\ [][Dedupe]_vars

\* An index fitted on any documents, then one query.
InitBM25 ==
    /\ AgentIdle /\ MemoryIdle /\ ToolKitIdle /\ DialogueIdle /\ PartitionIdle /\ SessionIdle /\ ReleaseIdle /\ NormIdle /\ LongIdle /\ AccessIdle /\ ExtractIdle /\ EmotionIdle /\ ServiceIdle /\ DedupeIdle
    /\ ParserIdle /\ CallAgentIdle
    /\ \E n \in 0..MaxDocs : \E documents \in [1..n -> Documents] :
          /\ bm_documents = documents
          /\ bm_corpus = Fit(documents)
    /\ bm_query = <<>>
    /\ bm_done = FALSE
    /\ bm_scores = <<>>

SpecBM25 == InitBM25 /\ [][BM25Query]_vars

\* normalize_emotion on any mapping, then on its own result.
InitEmotion ==
    /\ AgentIdle /\ MemoryIdle /\ ToolKitIdle /\ DialogueIdle /\ PartitionIdle /\ SessionIdle /\ ReleaseIdle /\ NormIdle /\ LongIdle /\ AccessIdle /\ ExtractIdle /\ ServiceIdle /\ DedupeIdle /\ BM25Idle
    /\ ParserIdle /\ CallAgentIdle
    /\ em_input \in [EmotionKeys -> EmotionValues]
    /\ em_pc = "start"
    /\ em_first = NotNormalized
    /\ em_second = NotNormalized

SpecEmotion == InitEmotion /\ [][EmotionNext]_vars

\* The emotion state extracted from any trace.
InitExtract ==
    /\ AgentIdle /\ MemoryIdle /\ ToolKitIdle /\ DialogueIdle /\ PartitionIdle /\ SessionIdle /\ ReleaseIdle /\ NormIdle /\ LongIdle /\ AccessIdle /\ ServiceIdle /\ DedupeIdle /\ BM25Idle
    /\ EmotionIdle /\ ParserIdle /\ CallAgentIdle
    /\ \E n \in 0..MaxTrace : ex_trace \in [1..n -> TraceMessages]
    /\ ex_done = FALSE
    /\ ex_emotion_state = <<>>

SpecExtract == InitExtract /\ [][ExtractEmotion]_vars

\* a memory manager whose mid-term table is searched
InitAccess ==
    /\ AgentIdle /\ MemoryIdle /\ ToolKitIdle /\ DialogueIdle /\ PartitionIdle /\ SessionIdle /\ ReleaseIdle /\ NormIdle /\ LongIdle /\ AccessIdle /\ ExtractIdle /\ EmotionIdle
    /\ BM25Idle /\ DedupeIdle /\ ServiceIdle /\ ParserIdle /\ CallAgentIdle

SpecAccess == InitAccess /\ [][AccessNext]_vars

\* one search_long_term call over every collection of at most MaxVectors vectors
InitLong ==
    /\ AgentIdle /\ MemoryIdle /\ ToolKitIdle /\ DialogueIdle /\ PartitionIdle /\ SessionIdle /\ ReleaseIdle /\ NormIdle /\ AccessIdle /\ ExtractIdle /\ EmotionIdle
    /\ BM25Idle /\ DedupeIdle /\ ServiceIdle /\ ParserIdle /\ CallAgentIdle
    /\ \E n \in 0..MaxVectors : \E f \in [1..n -> VectorValues] :
           /\ BestMatchFirst(f)
           /\ lt_store = VectorList(n, f)
    /\ lt_call = NoLongCall
    /\ lt_done = FALSE
    /\ lt_kept = <<>>
    /\ lt_results = <<>>

SpecLong == InitLong /\ [][SearchLongTerm]_vars

\* one batch of the ranker with every score map get_doc_score_map can give
InitNorm ==
    /\ AgentIdle /\ MemoryIdle /\ ToolKitIdle /\ DialogueIdle /\ PartitionIdle /\ SessionIdle /\ ReleaseIdle /\ LongIdle /\ AccessIdle /\ ExtractIdle
    /\ EmotionIdle /\ BM25Idle /\ DedupeIdle /\ ServiceIdle /\ ParserIdle /\ CallAgentIdle
    /\ \E n \in 1..MaxBatchItems : \E empty \in BOOLEAN : \E f \in [1..n -> RawScores(n)] :
           /\ (empty => \A i \in 1..n : f[i] = 0)
           /\ nb_batch = ScoreMap(empty, f)
    /\ nb_done = FALSE
    /\ nb_scores = <<>>

SpecNorm == InitNorm /\ [][NormalizeBatch]_vars

\* a service whose sessions are created, deleted and shut down
InitRelease ==
    /\ AgentIdle /\ MemoryIdle /\ ToolKitIdle /\ DialogueIdle /\ PartitionIdle /\ SessionIdle /\ ReleaseIdle /\ NormIdle /\ LongIdle
    /\ AccessIdle /\ ExtractIdle /\ EmotionIdle /\ BM25Idle /\ DedupeIdle /\ ServiceIdle
    /\ ParserIdle /\ CallAgentIdle

SpecRelease == InitRelease /\ [][ReleaseNext]_vars

\* chats of any (bot_id, user_id) pairs on one service
InitSession ==
    /\ AgentIdle /\ MemoryIdle /\ ToolKitIdle /\ DialogueIdle /\ PartitionIdle /\ SessionIdle /\ ReleaseIdle /\ NormIdle
    /\ LongIdle /\ AccessIdle /\ ExtractIdle /\ EmotionIdle /\ BM25Idle /\ DedupeIdle
    /\ ServiceIdle /\ ParserIdle /\ CallAgentIdle

SpecSession == InitSession /\ [][SessionChat]_vars

\* the memory managers of several bots and one user on one collection
InitPartition ==
    /\ AgentIdle /\ MemoryIdle /\ ToolKitIdle /\ DialogueIdle /\ PartitionIdle /\ SessionIdle /\ ReleaseIdle
    /\ NormIdle /\ LongIdle /\ AccessIdle /\ ExtractIdle /\ EmotionIdle /\ BM25Idle
    /\ DedupeIdle /\ ServiceIdle /\ ParserIdle /\ CallAgentIdle

SpecPartition == InitPartition /\ [][PartitionNext]_vars

\* many turns of one System agent
InitDialogue ==
    /\ AgentIdle /\ MemoryIdle /\ ToolKitIdle /\ DialogueIdle /\ PartitionIdle /\ SessionIdle
    /\ ReleaseIdle /\ NormIdle /\ LongIdle /\ AccessIdle /\ ExtractIdle /\ EmotionIdle
    /\ BM25Idle /\ DedupeIdle /\ ServiceIdle /\ ParserIdle /\ CallAgentIdle

SpecDialogue == InitDialogue /\ [][DialogueNext]_vars

(* ------------------------------------------------------------------ *)
(* Properties of the ReAct loop                                         *)
(* ------------------------------------------------------------------ *)

RunEnded == pc = "idle" /\ turns > 0

\* C1: for any sequence of LLM replies a run makes at most max_iterations
\* LLM calls in the loop and then yields exactly one result.
C1_BoundedRunYieldsOneResult ==
    /\ llm_calls <= MaxIterations
    /\ (RunEnded /\ ~llm_failed) =>
          (outcome.kind = "result" /\ outcome.iterations <= MaxIterations)

\* C2: with tools available, a Final Answer given before any tool call is
\* answered by a repair message and does not end the run; a run that succeeds
\* has an Observation in its transcript.
C2_ToolBeforeFinalAnswer ==
    /\ \A i \in 1..Len(loop_messages) :
          ( /\ toolkit_size > 0
            /\ loop_messages[i] = Msg("assistant", "reply with Final Answer")
            /\ CountObservations(SubSeq(loop_messages, 1, i)) = 0 )
          => (i < Len(loop_messages) /\ loop_messages[i + 1] = RepairToolFirst)
    /\ (outcome.kind = "result" /\ outcome.success /\ toolkit_size > 0)
          => CountObservations(outcome.trace) >= 1

\* A run with tools whose first Final Answer was rejected and a later one accepted.
C2_Witness ==
    /\ toolkit_size > 0
    /\ outcome.kind = "result"
    /\ outcome.success
    /\ \E i \in 1..Len(outcome.trace) : outcome.trace[i] = RepairToolFirst

\* C3: whatever the LLM replies and however a tool behaves, no exception
\* leaves the ReAct loop.
C3_LoopAbsorbsReplyAndToolErrors ==
    ~(outcome.kind = "exception" /\ outcome.error = "TypeError")

SystemMessages == heap[messages_obj]

Last(seq) == seq[Len(seq)]

\* C4: at every call_agent dispatch, after any sequence of turns, trims and
\* clear_history calls, the callee's conversation_history is the System
\* agent's messages list of that moment.
C4_InjectedHistoryIsCurrent ==
    (dispatch.made /\ adds = 0) => dispatch.history = dispatch.system_messages

\* C5: during a run of the System agent the messages list ends with the
\* current user turn, and so does every injected conversation_history.
C5_UserTurnRecordedBeforeLoop ==
    /\ (kind = "system" /\ pc = "loop") =>
          ( /\ SystemMessages # <<>>
            /\ Last(SystemMessages).role = "user"
            /\ Last(SystemMessages).content = user_input )
    /\ dispatch.made =>
          ( /\ dispatch.history # <<>>
            /\ Last(dispatch.history).role = "user"
            /\ Last(dispatch.history).content = dispatch.input )

\* C6: once message_window full turns have run (and the summariser did not
\* fail), the summariser has been called, the table holds one row with all
\* 2 * message_window messages, and the list the tool references is empty.
C6_FullWindowIsSummarised ==
    ( /\ kind = "system"
      /\ pc = "idle"
      /\ final_turns = MessageWindow
      /\ adds = 0
      /\ trim.what # "fallback" )
    => ( /\ trim.what = "summarised"
         /\ summarizer_calls = 1
         /\ Len(mid_term) = 1
         /\ Len(mid_term[1].raw_messages) = 2 * MessageWindow
         /\ SystemMessages = <<>>
         /\ messages_ref_obj = messages_obj )

RECURSIVE IsAlternating(_, _)
IsAlternating(msgs, role) ==
    \/ msgs = <<>>
    \/ /\ Head(msgs).role = role
       /\ IsAlternating(Tail(msgs), IF role = "user" THEN "assistant" ELSE "user")

\* C7: when the window is full and the summariser fails, the list loses its
\* oldest user message and the assistant message after it, and no row is written.
C7_FallbackRemovesOldestPair ==
    (trim.what = "fallback" /\ IsAlternating(trim.before, "user"))
    => ( /\ trim.after = Tail(Tail(trim.before))
         /\ outcome.kind = "result" )

(* ------------------------------------------------------------------ *)
(* Properties of the session lifecycle                                  *)
(* ------------------------------------------------------------------ *)

\* the pipelines of a key that have not been closed
LivePipelines(key) ==
    {p \in 1..Len(svc_objects) : svc_objects[p].key = key /\ ~svc_objects[p].closed}

\* a step that is a chat call for the key
ChatStepFor(key) ==
    svc_calls' = svc_calls + 1 /\ svc_last'.op = "chat" /\ svc_last'.key = key

\* a step that is a delete_session call for the key
DeleteStepFor(key) ==
    svc_calls' = svc_calls + 1 /\ svc_last'.op = "delete_session" /\ svc_last'.key = key

\* C21: the service holds at most one pipeline per session key, and it is
\* the one the mapping names.
C21_OnePipelinePerKey ==
    \A key \in SessionKeys :
        LivePipelines(key) = IF svc_pipelines[key] = 0 THEN {} ELSE {svc_pipelines[key]}

\* C21: chat creates a pipeline only when the key has none, the new one
\* starting with an empty history, and otherwise runs on the pipeline the key
\* has, with the history it had; delete_session closes the pipeline of the
\* key and removes it.
C21_ChatReusesDeleteRemoves ==
    [][ \A key \in SessionKeys :
          /\ ChatStepFor(key) =>
                IF svc_pipelines[key] # 0
                THEN /\ svc_pipelines'[key] = svc_pipelines[key]
                     /\ ~svc_last'.created
                     /\ Len(svc_objects') = Len(svc_objects)
                     /\ svc_last'.history_before = svc_objects[svc_pipelines[key]].history
                ELSE /\ svc_last'.created
                     /\ svc_pipelines'[key] = Len(svc_objects) + 1
                     /\ Len(svc_objects') = Len(svc_objects) + 1
                     /\ svc_last'.history_before = 0
          /\ DeleteStepFor(key) =>
                /\ svc_pipelines'[key] = 0
                /\ svc_pipelines[key] # 0 => svc_objects'[svc_pipelines[key]].closed
      ]_vars

HeadsGiven == {dd_items[i].content.head : i \in 1..Len(dd_items)}

\* the highest score among the items given whose content starts with head
BestScore(head) ==
    CHOOSE v \in Scores :
        /\ \E i \in 1..Len(dd_items) :
              dd_items[i].content.head = head /\ dd_items[i].score = v
        /\ \A i \in 1..Len(dd_items) :
              dd_items[i].content.head = head => dd_items[i].score <= v

\* the places of the result whose content starts with head
Kept(head) == {j \in 1..Len(dd_result) : dd_result[j].content.head = head}

\* C22 as stated: for every first-100-characters prefix among the items,
\* the deduplicated output holds exactly one item with it, the one with the
\* highest score.
C22_OneItemPerPrefix ==
    dd_done =>
        \A head \in HeadsGiven :
            /\ Cardinality(Kept(head)) = 1
            /\ \A j \in Kept(head) : dd_result[j].score = BestScore(head)

\* C22: the output holds items that were given, none with an empty content
\* and no two with the same prefix, each with the highest score of its
\* prefix, in non-increasing score order; the long-term output has every
\* non-empty prefix, the mid-term output the coarse_rank_limit best of them.
C22_OneItemPerNonEmptyPrefix ==
    dd_done =>
        /\ \A j \in 1..Len(dd_result) :
              /\ \E i \in 1..Len(dd_items) : dd_items[i] = dd_result[j]
              /\ dd_result[j].content.head # ""
              /\ Kept(dd_result[j].content.head) = {j}
              /\ dd_result[j].score = BestScore(dd_result[j].content.head)
              /\ j > 1 => dd_result[j - 1].score >= dd_result[j].score
        /\ dd_call = "long_term" =>
              \A head \in HeadsGiven \ {""} : Kept(head) # {}
        /\ dd_call = "mid_term" =>
              /\ Len(dd_result) = Min(Cardinality(HeadsGiven \ {""}), CoarseRankLimit)
              /\ \A head \in HeadsGiven \ {""} :
                    Kept(head) = {} =>
                        \A j \in 1..Len(dd_result) : dd_result[j].score >= BestScore(head)

\* The example of the claim: three items with the same prefix and scores
\* 0.9, 0.5, 0.7, of which the one with 0.9 alone is returned.
C22_Witness ==
    /\ dd_done
    /\ Len(dd_items) = 3
    /\ \A i \in 1..3 : dd_items[i].content.head = "h1"
    /\ <<dd_items[1].score, dd_items[2].score, dd_items[3].score>> = <<9, 5, 7>>
    /\ Len(dd_result) = 1
    /\ dd_result[1].score = 9

(* ------------------------------------------------------------------ *)
(* Properties of the BM25 score map                                     *)
(* ------------------------------------------------------------------ *)

\* the score map holds the word match of every document
WordMatchScores ==
    /\ Len(bm_scores) = Len(bm_corpus)
    /\ \A i \in 1..Len(bm_corpus) :
          /\ bm_scores[i].of = Cardinality(TokenSet(Tokenize(bm_query)))
          /\ bm_scores[i].hits =
                Cardinality(TokenSet(Tokenize(bm_query)) \cap TokenSet(bm_corpus[i]))
          /\ bm_scores[i].of > 0
          /\ 0 <= bm_scores[i].hits
          /\ bm_scores[i].hits <= bm_scores[i].of

\* the corpus of the one document "alpha beta"
AlphaBetaCorpus ==
    /\ Len(bm_documents) = 1
    /\ bm_documents[1] = [summary |-> <<"alpha", " ", "beta">>, keywords |-> <<>>]

\* the scores 1.0, 0.0, 1.0 of the queries "alpha", "gamma", "alpha beta"
AlphaBetaScores ==
    /\ bm_query = <<"alpha">> => bm_scores[1].hits = bm_scores[1].of
    /\ bm_query = <<"gamma">> => bm_scores[1].hits = 0
    /\ bm_query = <<"alpha", " ", "beta">> => bm_scores[1].hits = bm_scores[1].of

\* C23 as stated: with at most 3 documents fitted, every document's score
\* for a non-empty query is the word match |query & doc| / |query|.
C23_WordMatchForNonEmptyQuery ==
    (bm_done /\ Len(bm_corpus) \in 1..FewDocs /\ bm_query # <<>>) => WordMatchScores

\* C23: with at most 3 documents fitted, every document's score for a query
\* with at least one token is the word match |query & doc| / |query|, between
\* 0 and 1; a query without tokens gets the empty map; the one-document
\* corpus "alpha beta" scores the three example queries 1.0, 0.0, 1.0.
C23_WordMatchForQueryWithTokens ==
    (bm_done /\ Len(bm_corpus) \in 1..FewDocs) =>
        /\ Tokenize(bm_query) # <<>> => WordMatchScores
        /\ Tokenize(bm_query) = <<>> => bm_scores = <<>>
        /\ (AlphaBetaCorpus /\ Tokenize(bm_query) # <<>>) => AlphaBetaScores

\* Three documents were scored by word match for a query of two tokens, one
\* of them fully and one not at all.
C23_Witness ==
    /\ bm_done
    /\ Len(bm_corpus) = FewDocs
    /\ bm_query = <<"alpha", " ", "beta">>
    /\ \E i, j \in 1..Len(bm_scores) :
          /\ bm_scores[i] = [hits |-> 2, of |-> 2]
          /\ bm_scores[j] = [hits |-> 0, of |-> 2]

(* ------------------------------------------------------------------ *)
(* Properties of normalize_emotion                                      *)
(* ------------------------------------------------------------------ *)

\* a mapping with exactly the four keys, every value in the range of its key
\* and with two decimals
InRange(value) ==
    /\ DOMAIN value = EmotionKeys
    /\ \A key \in EmotionKeys :
          /\ value[key].is = "number"
          /\ LowerEnd(key) <= value[key].n
          /\ value[key].n <= 1000
          /\ value[key].n % 10 = 0

\* the keys of the argument that are missing or hold no number
WithoutNumber == {key \in EmotionKeys : em_input[key].is \in {"missing", None, "abc"}}

\* C24: for any input mapping normalize_emotion returns a mapping of the four
\* keys, clamped and rounded, with the default for a missing or non-numeric
\* key, and normalising the result again changes nothing.
C24_NormalizeIsTotalAndIdempotent ==
    /\ em_pc # "start" =>
          /\ ~em_first.raised
          /\ InRange(em_first.value)
          /\ \A key \in WithoutNumber : em_first.value[key] = Number(DefaultEmotion[key])
    /\ em_pc = "twice" => (~em_second.raised /\ em_second.value = em_first.value)

(* ------------------------------------------------------------------ *)
(* Properties of the Final Answer branch                                *)
(* ------------------------------------------------------------------ *)

\* the names of the steps the Final Answer branch took
FinalStepNames == [i \in 1..Len(final_steps) |-> final_steps[i].step]

\* the run ended with an accepted Final Answer
FinalAccepted == pc = "idle" /\ outcome.kind = "result" /\ outcome.success

\* after the accepted Final Answer the loop made no LLM call and ran no tool:
\* the reply with the Final Answer ends the transcript, the LLM was called
\* once per iteration counted, the tools ran in earlier iterations
LoopEndedAtFinal ==
    /\ outcome.trace # <<>>
    /\ outcome.trace[Len(outcome.trace)] = Msg("assistant", "reply with Final Answer")
    /\ llm_calls = outcome.iterations
    /\ \A i \in 1..Len(tool_runs) : tool_runs[i] < outcome.iterations

\* C25 as stated: on a valid Final Answer the reply is appended, then the
\* on_final_answer hook runs, then the finalisation, then the text is yielded
\* and the loop ends without a further LLM loop call or tool call.
C25_HookThenFinalisation ==
    FinalAccepted =>
        /\ FinalStepNames = <<"append", "_on_final_answer", "_finalize_output", "yield">>
        /\ LoopEndedAtFinal

\* C25: on a valid Final Answer the reply is appended, then the finalisation
\* runs, then the on_final_answer hook on the finalised text, then that text
\* is yielded and the loop ends without a further LLM loop call or tool
\* call; when the finalisation raises, neither the hook nor the yield happens.
C25_FinalisationThenHook ==
    /\ FinalAccepted =>
          /\ FinalStepNames = <<"append", "_finalize_output", "_on_final_answer", "yield">>
          /\ final_steps[2].text = outcome.answer
          /\ final_steps[3].text = outcome.answer
          /\ final_steps[4].text = outcome.answer
          /\ LoopEndedAtFinal
    /\ (pc = "idle" /\ ~FinalAccepted /\ final_steps # <<>>) =>
          /\ outcome.kind = "exception"
          /\ FinalStepNames = <<"append", "_finalize_output">>
          /\ final_steps[2].text = outcome.error

\* The Memory agent accepted a Final Answer after a tool call and yielded
\* the formatted output of the finalisation.
C25_Witness ==
    /\ FinalAccepted
    /\ kind = "memory"
    /\ outcome.answer = "formatted memory"
    /\ Len(final_steps) = 4
    /\ tool_runs # <<>>

(* ------------------------------------------------------------------ *)
(* Properties of promotion from the read path                           *)
(* ------------------------------------------------------------------ *)

\* C26: once the searches have brought the in-process counter of a row to
\* the threshold, the row is taken up for promotion as the session goes on,
\* without the manager being closed.
C26_PromotedWhileInUse ==
    \A id \in MidIds :
        (id \in mid_table /\ access_counter[id] >= PROMOTION_THRESHOLD)
            ~> (id \in promo_selected)

(* ------------------------------------------------------------------ *)
(* Properties of the emotion state of the Character agent               *)
(* ------------------------------------------------------------------ *)

\* the message is an Observation that parses as a mapping with at least one
\* of the keys valence, arousal, mood
EmotionObservation(msg) ==
    msg.role = "user" /\ msg.observation /\ msg.text.object /\ HasEmotionKey(msg.text)

\* the places of the trace that hold such an Observation
EmotionObservations == {i \in 1..Len(ex_trace) : EmotionObservation(ex_trace[i])}

\* C27: emotion_state is the normalised emotion of the first Observation of
\* the trace that parses as a mapping with at least one of the keys valence,
\* arousal, mood (so the normalised result of analyze_emotion when it ran),
\* and the default emotion only when the trace has no such Observation.
C27_EmotionOfFirstObservation ==
    ex_done =>
        IF EmotionObservations = {}
        THEN ex_emotion_state = [key \in EmotionKeys |-> Number(DefaultEmotion[key])]
        ELSE LET first == CHOOSE i \in EmotionObservations :
                              \A j \in EmotionObservations : i <= j
             IN  ex_emotion_state = NormalizeEmotion(ex_trace[first].text.emotion).value

(* ------------------------------------------------------------------ *)
(* Properties of the access counts                                      *)
(* ------------------------------------------------------------------ *)

\* the step is one search_mid_term call
SearchStep == ac_searches' = ac_searches + 1

\* one more than before for the ids in `ids`, the same as before for the rest
OneMoreFor(before, after, ids) ==
    \A id \in MidIds : after[id] = before[id] + (IF id \in ids THEN 1 ELSE 0)

\* C28 as stated: each mid-term search increments by exactly one, for every
\* id it returns and for no other id, both the stored access_count and the
\* in-process counter.
C28_BothCountsPerReturnedId ==
    [][SearchStep =>
          /\ OneMoreFor(ac_stored, ac_stored', ac_last'.returned)
          /\ OneMoreFor(ac_counter, ac_counter', ac_last'.returned)]_vars

\* C28, amended: each mid-term search increments the in-process counter by
\* exactly one for every id it returns and for no other id, and the stored
\* access_count by exactly one for every returned id whose update did not
\* raise and for no other id; a stored access_count is never negative and
\* never decreases.
C28_CountsPerSearch ==
    /\ [][SearchStep =>
             /\ OneMoreFor(ac_counter, ac_counter', ac_last'.returned)
             /\ OneMoreFor(ac_stored, ac_stored',
                           ac_last'.returned \ ac_last'.failed)]_vars
    /\ [](\A id \in MidIds : ac_stored[id] >= 0)
    /\ [][\A id \in ac_table : ac_stored'[id] >= ac_stored[id]]_vars

\* a search returned two rows, the update of one of them raised
C28_Witness ==
    /\ ac_last.failed # {}
    /\ ac_last.returned \ ac_last.failed # {}
    /\ \E id \in ac_last.failed : ac_counter[id] > ac_stored[id]

(* ------------------------------------------------------------------ *)
(* Properties of search_long_term                                       *)
(* ------------------------------------------------------------------ *)

\* C29: search_long_term returns at most `limit` results, in non-increasing
\* final_score order, and every returned record has the manager's user_id,
\* the requested memory_type when one is given, final_score >= min_score
\* and importance >= min_importance.
C29_LongTermResults ==
    lt_done =>
        /\ Len(lt_results) <= lt_call.limit
        /\ \A i, j \in 1..Len(lt_kept) : i < j => lt_kept[i].score >= lt_kept[j].score
        /\ \A i \in 1..Len(lt_results) :
              /\ lt_store[lt_results[i].id].user_id = ManagerUserId
              /\ (lt_call.memory_type # "all" =>
                     /\ lt_results[i].memory_type = lt_call.memory_type
                     /\ lt_store[lt_results[i].id].memory_type = lt_call.memory_type)
              /\ lt_kept[i].score >= lt_call.min_score
              /\ lt_results[i].importance >= lt_call.min_importance

\* a search for one type with min_score 0.5 and min_importance 5 returned a
\* record while the collection holds another user's vector as well
C29_Witness ==
    /\ lt_done
    /\ Len(lt_results) >= 1
    /\ lt_call.memory_type # "all"
    /\ lt_call.min_score = 1800
    /\ lt_call.min_importance = 5
    /\ \E i \in 1..Len(lt_store) : lt_store[i].user_id # ManagerUserId

(* ------------------------------------------------------------------ *)
(* Properties of the finalisation with a response schema                *)
(* ------------------------------------------------------------------ *)

\* the Memory agent (the agent with a response schema) accepted a Final
\* Answer and the finalise LLM call returned
FinaliseCallReturned ==
    /\ kind = "memory"
    /\ pc = "idle"
    /\ Len(final_steps) >= 2
    /\ final_steps[2].text # "LLMRequestError"

\* C30: with a response_schema the Final-Answer text is discarded and one
\* finalise LLM call is made; the answer is format_final_output(data) when
\* its output parses as JSON and the raw text of the call when it does not,
\* and in both cases the run ends successfully with a non-raising result.
C30_FinalisedRunSucceeds ==
    FinaliseCallReturned =>
        /\ FinalAccepted
        /\ outcome.answer \in {"formatted memory", "raw reply"}
        /\ outcome.answer = final_steps[2].text

(* ------------------------------------------------------------------ *)
(* Properties of the normalised BM25 score                              *)
(* ------------------------------------------------------------------ *)

\* the fraction lies in [0, 1]
InUnitInterval(x) ==
    IF x.den > 0 THEN 0 <= x.num /\ x.num <= x.den
    ELSE x.den < 0 /\ x.den <= x.num /\ x.num <= 0

\* C31: every item's normalised BM25 score lies in [0, 1] after the division
\* by the batch maximum, for every batch of raw scores, those whose scores
\* are all zero or negative included.
C31_NormalisedScoreInUnitInterval ==
    nb_done => \A i \in 1..Len(nb_scores) : InUnitInterval(nb_scores[i])

(* ------------------------------------------------------------------ *)
(* Properties of a failed sub-agent call                                *)
(* ------------------------------------------------------------------ *)

\* the step is an iteration of the System loop whose Action reached
\* agent.invoke, and the sub-agent ended unsuccessfully: invoke returned a
\* response without success (exhaustion, or an exception it caught) or raised
FailedCallStep ==
    /\ kind = "system"
    /\ pc = "loop"
    /\ dispatch'.made
    /\ dispatch'.at = iteration + 1
    /\ dispatch'.callee \in {"fail", "raise"}

\* C32: a sub-agent that ends unsuccessfully does not abort the System
\* agent's turn: the failure is appended to the System transcript as an
\* 'Observation: Error' message after the reply with the Action, no exception
\* leaves the loop, and the loop goes on with its next iteration (the exit
\* after the for loop once the budget is used up).
C32_FailedSubAgentIsObserved ==
    [][FailedCallStep =>
          /\ loop_messages' =
                 loop_messages \o <<Msg("assistant", "reply with Action"),
                                    Msg("user", "Observation: Error")>>
          /\ has_called_tool'
          /\ outcome'.kind # "exception"
          /\ IF iteration + 1 < MaxIterations
             THEN pc' = "loop" /\ iteration' = iteration + 1 /\ outcome' = outcome
             ELSE /\ pc' = "idle"
                  /\ outcome'.kind = "result"
                  /\ outcome'.error = "Exceeded max iterations"]_vars

\* the System agent goes on after a failed sub-agent call and ends the turn
\* with an accepted Final Answer
C32_Witness ==
    /\ kind = "system"
    /\ dispatch.made
    /\ dispatch.callee \in {"fail", "raise"}
    /\ pc = "idle"
    /\ outcome.kind = "result"
    /\ outcome.success
    /\ \E i \in 1..Len(outcome.trace) : outcome.trace[i] = Msg("user", "Observation: Error")

(* ------------------------------------------------------------------ *)
(* Properties of the release of resources                               *)
(* ------------------------------------------------------------------ *)

\* the step is one service call
ReleaseStep(op) == rl_calls' = rl_calls + 1 /\ rl_last'.op = op

\* C33: when a session is deleted or the service shuts down, the System
\* agent, the Memory agent and the Character agent of each affected pipeline
\* are all closed even if closing one of them raises, and after
\* delete_session the session is no longer in the session map.
C33_AllClosedOnEveryExit ==
    [][ /\ (ReleaseStep("delete_session") /\ rl_last'.key \in rl_pipelines) =>
               /\ rl_closed'[rl_last'.key] = PipelineAgents
               /\ rl_last'.key \notin rl_pipelines'
        /\ ReleaseStep("shutdown") =>
               \A key \in rl_pipelines : rl_closed'[key] = PipelineAgents
      ]_vars

(* ------------------------------------------------------------------ *)
(* Properties of the results of a batch with repeated call ids          *)
(* ------------------------------------------------------------------ *)

\* C34: for every batch, batches in which two calls carry the same call_id
\* included, the i-th returned element holds the ToolResult produced by
\* executing the i-th call's own (name, args), under every completion order.
C34_ResultOfOwnCall ==
    tk_pc = "returned" =>
        /\ Len(tk_returned) = Len(tk_calls)
        /\ \A i \in 1..Len(tk_calls) :
              /\ tk_returned[i].result.from_call = i
              /\ tk_returned[i].name = tk_calls[i].name

(* ------------------------------------------------------------------ *)
(* Properties of the session key                                        *)
(* ------------------------------------------------------------------ *)

\* C35: distinct (bot_id, user_id) pairs never share a session: two pairs
\* that differ in bot_id or user_id, over ids that may contain ':', use two
\* different pipelines, and the dialogue history of the one is never visible
\* through the other.
C35_PairsNeverShareSession ==
    /\ \A u1, u2 \in sk_used :
          (u1.bot_id # u2.bot_id \/ u1.user_id # u2.user_id) =>
              u1.pipeline # u2.pipeline
    /\ \A u \in sk_used :
          /\ sk_objects[u.pipeline].bot_id = u.bot_id
          /\ sk_objects[u.pipeline].user_id = u.user_id

(* ------------------------------------------------------------------ *)
(* Properties of the isolation of long-term memory                      *)
(* ------------------------------------------------------------------ *)

\* C36: long-term memory is isolated per bot: for two different bot_id
\* values, ids that differ only in non-alphanumeric characters included, and
\* the same user_id, a record stored by the manager of the one bot is never
\* returned by the search_long_term of the other.
C36_IsolatedPerBot ==
    pt_search.done => \A r \in pt_search.results : r.bot_id = pt_search.bot_id

(* ------------------------------------------------------------------ *)
(* Properties of the dialogue kept across turns                         *)
(* ------------------------------------------------------------------ *)

\* equal numbers of user and assistant turns in strict alternation from a
\* user turn; the empty list included
IsCoherent(msgs) ==
    /\ IsAlternating(msgs, "user")
    /\ UserCount(msgs) = CountRole(msgs, "assistant")

\* C37: at the end of every System.run, successful or not, the messages list
\* of the System agent is coherent: equal numbers of user and assistant turns
\* in strict alternation from a user turn, or empty after a summarisation; a
\* turn that fails or exhausts its budget leaves no dangling message.
C37_MessagesCoherentAfterRun ==
    (kind = "system" /\ RunEnded /\ adds = 0) => IsCoherent(SystemMessages)

\* C38: after every completed turn of the System agent, for any sequence of
\* turns and any mix of summariser successes and failures, messages holds at
\* most message_window user messages, so the dialogue in memory does not grow
\* without bound: it holds no more than the turns of one window.
C38_DialogueStaysWithinWindow ==
    dg_last = "answered" =>
        /\ UserCount(dg_messages) <= MessageWindow
        /\ Len(dg_messages) <= 2 * MessageWindow

(* ------------------------------------------------------------------ *)
(* Properties of the tool gate and the transcript                       *)
(* ------------------------------------------------------------------ *)

\* the transcript holds Observations, and every one reports a failure
ObservedOnlyFailures(msgs) ==
    /\ CountObservations(msgs) >= 1
    /\ \A i \in 1..Len(msgs) : msgs[i] # Observation(TRUE)

\* a step of the loop whose LLM reply is a valid Final Answer
FinalAnswerStep ==
    /\ pc = "loop"
    /\ Len(loop_messages') > Len(loop_messages)
    /\ loop_messages'[Len(loop_messages) + 1] = Msg("assistant", "reply with Final Answer")

\* the reply ended the run: no repair message follows it, and a result is a success
FinalAnswerAccepted ==
    /\ pc' = "idle"
    /\ loop_messages' = Append(loop_messages, Msg("assistant", "reply with Final Answer"))
    /\ outcome'.kind = "result" => outcome'.success

\* C39: the gate before a Final Answer is opened by any dispatched Action,
\* whatever its outcome: after an Action whose tool is unknown or failed,
\* has_called_tool is true and a following valid Final Answer is accepted.
C39_AnyActionOpensGate ==
    /\ []((pc = "loop" /\ CountObservations(loop_messages) >= 1) => has_called_tool)
    /\ [][(ObservedOnlyFailures(loop_messages) /\ FinalAnswerStep)
             => FinalAnswerAccepted]_vars

\* A run with tools that succeeded although no tool was found, the one
\* Action naming an unknown tool.
C39_Witness ==
    /\ toolkit_size > 0
    /\ outcome.kind = "result"
    /\ outcome.success
    /\ ObservedOnlyFailures(outcome.trace)
    /\ tool_runs = <<>>

\* a step that starts a run
RunStarts == pc = "idle" /\ pc' = "loop"

\* seq is the beginning of longer
IsPrefix(seq, longer) ==
    Len(seq) <= Len(longer) /\ SubSeq(longer, 1, Len(seq)) = seq

\* every Observation comes right after the assistant message with its Action
ObservationsFollowActions(msgs) ==
    \A i \in 1..Len(msgs) :
        msgs[i] \in {Observation(TRUE), Observation(FALSE)}
        => (i > 1 /\ msgs[i - 1] = Msg("assistant", "reply with Action"))

\* C40: every run starts from a transcript of exactly the system prompt and
\* the user input, nothing carried over from an earlier run or invoke, with
\* the tool-called flag false; during the run the transcript only grows by
\* appends, and every Observation immediately follows the assistant message
\* whose Action produced it.
C40_TranscriptInvariant ==
    /\ [][RunStarts =>
            /\ loop_messages' = <<Msg("system", "system prompt"), Msg("user", user_input')>>
            /\ ~has_called_tool']_vars
    /\ [][pc = "loop" => IsPrefix(loop_messages, loop_messages')]_vars
    /\ [](pc = "loop" => ObservationsFollowActions(loop_messages))
    /\ [](outcome.kind # "none" => ObservationsFollowActions(outcome.trace))

\* The second run of an agent, after its first Action, its flag set: the
\* transcript holds the two opening messages, the reply and the Observation.
C40_Witness ==
    /\ turns = 2
    /\ pc = "loop"
    /\ has_called_tool
    /\ Len(loop_messages) = 4
    /\ CountObservations(loop_messages) = 1

(* ------------------------------------------------------------------ *)
(* Properties of the exhausted budget                                   *)
(* ------------------------------------------------------------------ *)

\* C12: an iteration that uses up the budget ends the run, and when no Final
\* Answer was accepted in it (and nothing was raised) the result is
\* unsuccessful with answer "", error "Exceeded max iterations", iterations
\* = max_iterations and the whole loop transcript as trace.
C12_ExhaustionResult ==
    [][(pc = "loop" /\ iteration = MaxIterations - 1 /\ llm_calls' # llm_calls) =>
          /\ pc' = "idle"
          /\ outcome'.kind \in {"result", "exception"}
          /\ (outcome'.kind = "result" /\ ~outcome'.success) =>
                /\ outcome'.answer = ""
                /\ outcome'.error = "Exceeded max iterations"
                /\ outcome'.iterations = MaxIterations
                /\ outcome'.trace = loop_messages'
                /\ llm_calls' = MaxIterations]_vars

\* A run that used all its iterations on tool calls and repairs.
C12_Witness ==
    /\ pc = "idle"
    /\ outcome.kind = "result"
    /\ ~outcome.success
    /\ outcome.error = "Exceeded max iterations"
    /\ outcome.iterations = MaxIterations
    /\ llm_calls = MaxIterations
    /\ Len(outcome.trace) > 2

(* ------------------------------------------------------------------ *)
(* Properties of the repair of a malformed reply                        *)
(* ------------------------------------------------------------------ *)

NeitherReply == Msg("assistant", "reply without Action or Final Answer")

\* this step is an iteration whose reply had neither Action nor Final Answer
NeitherStep ==
    /\ pc = "loop"
    /\ Len(loop_messages') > Len(loop_messages)
    /\ loop_messages'[Len(loop_messages) + 1] = NeitherReply

\* C15 as stated: every reply with neither a usable Action nor a valid Final
\* Answer gets a repair message appended and the run goes on; no tool is
\* invoked and nothing is raised.
C15_RepairAlwaysAppended ==
    [][NeitherStep =>
          /\ loop_messages' = loop_messages \o <<NeitherReply, RepairFormat>>
          /\ pc' = "loop"
          /\ tool_runs' = tool_runs
          /\ outcome'.kind # "exception"]_vars

\* the first reply was a bare Thought, the second an Action on a registered
\* tool that ran
ThoughtThenAction ==
    /\ llm_calls = 2
    /\ Len(loop_messages) = 6
    /\ loop_messages[3] = NeitherReply
    /\ loop_messages[5] = Msg("assistant", "reply with Action")
    /\ loop_messages[6] = Observation(TRUE)

\* C15 (amended): such a reply invokes no tool and raises nothing; while an
\* iteration is left, the repair message is appended and the loop goes on; in
\* the last iteration only the reply is appended and the run ends with the
\* exhaustion result. A bare Thought followed by a valid Action runs the tool
\* exactly once, in iteration 2.
C15_RepairWhileBudgetLeft ==
    /\ [][NeitherStep =>
            /\ tool_runs' = tool_runs
            /\ outcome'.kind # "exception"
            /\ IF iteration < MaxIterations - 1
               THEN /\ loop_messages' = loop_messages \o <<NeitherReply, RepairFormat>>
                    /\ pc' = "loop"
               ELSE /\ loop_messages' = Append(loop_messages, NeitherReply)
                    /\ pc' = "idle"
                    /\ outcome'.error = "Exceeded max iterations"]_vars
    /\ [](ThoughtThenAction =>
            /\ loop_messages[4] = RepairFormat
            /\ tool_runs = <<2>>)

\* The bare Thought, the repair message, then the Action that ran the tool.
C15_Witness ==
    /\ ThoughtThenAction
    /\ loop_messages[4] = RepairFormat
    /\ tool_runs = <<2>>

(* ------------------------------------------------------------------ *)
(* Properties of the call_agent metadata                                *)
(* ------------------------------------------------------------------ *)

\* C16: a call_agent call with metadata = {memory_context: "x"} makes the
\* callee read memory_context "x" from its message, as does a call with the
\* named argument memory_context = "x".
C16_MemoryContextReachesCallee ==
    (ca_seen.invoked /\ ca_args.extra # "none") =>
        /\ MessageGet(ca_seen.metadata, "memory_context") = "x"
        /\ MessageGet(ca_seen.metadata, "conversation_history") = ca_messages_ref

(* ------------------------------------------------------------------ *)
(* Properties of the parser                                             *)
(* ------------------------------------------------------------------ *)

\* the reply of the example: Action: foo, Action Input: {"x":1}, and a
\* Final Answer "ignored" (seven characters)
ExampleReply(r) ==
    /\ r.action = "foo"
    /\ r.input = "object"
    /\ r.final_marker
    /\ Len(Strip(r.final_text)) > 5
    /\ Strip(r.final_text)[1] # "["

\* C13: a reply with an Action section parses to final_answer None, whatever
\* its Final Answer; no parse result has both an action and a final_answer;
\* the example reply parses to action foo, action_input {x:1}, final None.
C13_ActionDominatesFinalAnswer ==
    parser_done =>
        /\ (ActionToken(parser_reply) # None => parser_result.final_answer = NoText)
        /\ ~(parser_result.action # None /\ parser_result.final_answer # NoText)
        /\ (ExampleReply(parser_reply) =>
                /\ parser_result.action = "foo"
                /\ parser_result.action_input = "{x: 1}"
                /\ parser_result.final_answer = NoText)

\* The example reply has been parsed.
C13_Witness ==
    /\ parser_done
    /\ ExampleReply(parser_reply)
    /\ parser_result.action = "foo"

\* C14: for a reply without an Action section the Final Answer is dropped
\* exactly when its stripped text is empty, begins with "[" or is shorter
\* than 5 characters.
C14_FinalAnswerDroppedBelowFive ==
    (parser_done /\ parser_reply.action = "absent" /\ parser_reply.final_marker) =>
        LET t == Strip(parser_reply.final_text)
        IN (parser_result.final_answer = NoText)
              <=> (t = <<>> \/ t[1] = "[" \/ Len(t) < 5)

(* ------------------------------------------------------------------ *)
(* Properties of invoke                                                 *)
(* ------------------------------------------------------------------ *)

\* an invoke of the sub-agent has been made and is over
InvokeEnded == kind \in SubAgents /\ pc = "idle" /\ turns > 0

\* C11: every invoke of the Memory or Character agent returns an
\* AgentResponse, whatever failed in setup, loop, finalisation or
\* post-processing; a failed one has success = false and a non-null error.
C11_InvokeAlwaysReturnsResponse ==
    InvokeEnded =>
        /\ response.returned
        /\ (outcome.kind = "exception" => ~response.success)
        /\ (~response.success => response.error # None)

\* An invoke whose run raised and that returned the failure response.
C11_Witness ==
    /\ InvokeEnded
    /\ outcome.kind = "exception"
    /\ response.returned
    /\ ~response.success
    /\ response.error = outcome.error

(* ------------------------------------------------------------------ *)
(* Properties of a chat turn                                            *)
(* ------------------------------------------------------------------ *)

\* a chat turn of the System agent is over
ChatEnded == kind = "system" /\ pc = "idle" /\ outcome.kind \in {"result", "exception"}

\* C20: an unsuccessful chat turn (an exception, or the System agent's
\* iteration budget used up) returns success = false, the apology text as
\* answer and a non-null error.
C20_UnsuccessfulTurnApologises ==
    (ChatEnded /\ ~ChatReturn(outcome).success) =>
        /\ ChatReturn(outcome).answer = Apology
        /\ ChatReturn(outcome).error # None

(* ------------------------------------------------------------------ *)
(* Properties of store_long_term                                        *)
(* ------------------------------------------------------------------ *)

\* the parts of C18 that do not depend on white space: a successful store
\* inserted one record, whose vector is the embedding of the normalized
\* content its metadata holds, with source "agent"
StoredRecordIsNormalized ==
    /\ stored.inserted
    /\ stored.record \in long_term
    /\ stored.record.vector = Embed(stored.record.metadata.normalized_content)
    /\ stored.record.metadata.source = "agent"
    /\ \E llm \in NormalizeOutcomes :
          stored.record.metadata.normalized_content =
              NormalizeForStorage(stored.content, llm)

C19_PromotionSelectsByThreshold ==
    [][PromoteHighFrequency =>
          /\ promo_selected' = {id \in MidIds : access_counter[id] >= 3}
          /\ \A id \in MidIds : access_counter'[id] = 0
          /\ \A id \in MidIds :
                access_counter[id] < 3 =>
                    /\ (id \in mid_table') = (id \in mid_table)
                    /\ (PromotedRecord(id) \in long_term')
                          = (PromotedRecord(id) \in long_term)]_vars

\* A promotion took up one id and not the other, and the counters are empty.
C19_Witness ==
    /\ promo_selected # {}
    /\ promo_selected # MidIds
    /\ \A id \in MidIds : access_counter[id] = 0
    /\ MidIds \ promo_selected \subseteq mid_table

\* C8: a mid-term row that promotion deleted has its long-term record
\* (memory_type promoted, source mid_term, source_id = its id).
C8_DeletedOnlyAfterInsert ==
    \A id \in promoted_away : PromotedRecord(id) \in long_term

(* ------------------------------------------------------------------ *)
(* Properties of ToolKit.execute                                        *)
(* ------------------------------------------------------------------ *)

\* the result the dict holds was produced by call j of the batch
ResultsOfCall(j) ==
    {tk_results[k].result : k \in {n \in 1..Len(tk_results) : tk_results[n].result.from_call = j}}

\* C17 as stated: every exception and every argument mismatch raised while a
\* tool executes gives a fail result that lists the received argument names;
\* an unknown tool gives fail("Unknown tool: <name>").
C17_EveryFailureListsArguments ==
    \A j \in 1..Len(tk_calls) : \A r \in ResultsOfCall(j) :
        /\ (tk_calls[j].name = "missing" =>
                ~r.success /\ r.error = "Unknown tool: missing")
        /\ (tk_calls[j].name \in {"picky", "boom"} => ~r.success /\ r.lists_args)

\* C17 (amended): a TypeError in execute gives a fail result that lists the
\* received argument names, any other exception gives fail("Execution
\* error: ...") without them, an unknown tool gives fail("Unknown tool:
\* <name>"), and arguments that cannot be unpacked give fail("Parallel
\* execution error: ..."); every call of the batch has its result.
C17_FailuresBecomeFailResults ==
    /\ \A j \in 1..Len(tk_calls) : \A r \in ResultsOfCall(j) :
        /\ (tk_calls[j].name = "missing" =>
                ~r.success /\ r.error = "Unknown tool: missing")
        /\ (tk_calls[j].name = "picky" => ~r.success /\ r.lists_args)
        /\ (tk_calls[j].name = "boom" =>
                ~r.success /\ r.error = "Execution error" /\ ~r.lists_args)
        /\ (tk_calls[j].args = "not_a_mapping" =>
                ~r.success /\ r.error = "Parallel execution error")
        /\ (tk_calls[j].name = "echo" /\ tk_calls[j].args = "mapping" => r.success)
    /\ (tk_pc = "returned" =>
            Len(tk_returned) = Len(tk_calls))

\* A batch with a tool that raised a plain exception and one called with the
\* wrong arguments has returned.
C17_Witness ==
    /\ tk_pc = "returned"
    /\ Len(tk_calls) = 2
    /\ tk_calls[1].name = "boom"
    /\ tk_calls[2].name = "picky"
    /\ tk_calls[1].call_id # tk_calls[2].call_id
    /\ ~tk_returned[1].result.success
    /\ tk_returned[2].result.lists_args

\* C9: the returned list has one element per call and the i-th element
\* carries the i-th call's call_id, in whatever order the calls completed.
C9_CallerOrderPreserved ==
    tk_pc = "returned" =>
        /\ Len(tk_returned) = Len(tk_calls)
        /\ \A i \in 1..Len(tk_calls) : tk_returned[i].call_id = tk_calls[i].call_id

\* A batch of two calls with different ids whose second call completed first.
C9_Witness ==
    /\ tk_pc = "returned"
    /\ Len(tk_calls) >= 2
    /\ tk_calls[1].call_id # tk_calls[2].call_id
    /\ tk_order[1] = 2

====
